---------------------------- MODULE Spec2Model ----------------------------
(***************************************************************************)
(* http-fs: a static HTTP file server (src/http-fs-server.ts).             *)
(*                                                                         *)
(* The model follows the request-to-file pipeline of class HttpFsServer:   *)
(* requestCallback -> serveUrl -> fs.stat callback -> read stream piped to *)
(* the response, with respondNotFound re-entering serveUrl for the         *)
(* configured not-found file, and the command line layer of class App      *)
(* (createConfig, createServerConfigWithDefaults).                         *)
(*                                                                         *)
(* URLs and paths are strings; url.parse, decodeURI, path.join and         *)
(* path.extname are computed character by character.                       *)
(***************************************************************************)
EXTENDS Integers, Sequences, FiniteSets, TLC

(***************************************************************************)
(* Bounds of the model.                                                    *)
(***************************************************************************)
\* number of requests the server accepts in one behaviour
MaxRequests == 1
\* number of times respondNotFound may re-enter serveUrl for one request
MaxReentry == 2
\* number of chunks a file is read in
FileChunks == 2

(***************************************************************************)
(* Strings.                                                                *)
(***************************************************************************)
CharAt(s, i) == SubSeq(s, i, i)

RECURSIVE IndexFrom(_, _, _)
\* String.prototype.indexOf, 1-based; 0 when t does not occur in s from i on
IndexFrom(s, t, i) ==
    IF i + Len(t) - 1 > Len(s) THEN 0
    ELSE IF SubSeq(s, i, i + Len(t) - 1) = t THEN i
    ELSE IndexFrom(s, t, i + 1)

IndexOf(s, t) == IndexFrom(s, t, 1)

RECURSIVE LastIndexFrom(_, _, _)
\* last position <= i at which the character c occurs in s; 0 when none
LastIndexFrom(s, c, i) ==
    IF i < 1 THEN 0
    ELSE IF CharAt(s, i) = c THEN i
    ELSE LastIndexFrom(s, c, i - 1)

StartsWith(s, t) == Len(t) <= Len(s) /\ SubSeq(s, 1, Len(t)) = t

UpperChars == "ABCDEFGHIJKLMNOPQRSTUVWXYZ"
LowerChars == "abcdefghijklmnopqrstuvwxyz"

\* the lower case form of the character c, k being its place in UpperChars
LowerOf(c, k) == IF k > 0 THEN CharAt(LowerChars, k) ELSE c

RECURSIVE toLowerCase(_)
toLowerCase(s) ==
    IF s = "" THEN ""
    ELSE LowerOf(CharAt(s, 1), IndexOf(UpperChars, CharAt(s, 1)))
            \o toLowerCase(SubSeq(s, 2, Len(s)))

(***************************************************************************)
(* decodeURI.                                                              *)
(***************************************************************************)
HexDigits == "0123456789abcdef"

\* value of a hexadecimal digit, -1 when c is not one
HexValue(c) == IF Len(c) = 1 THEN IndexOf(HexDigits, toLowerCase(c)) - 1 ELSE -1

\* the byte two hexadecimal digits stand for, -1 when one of them is none
HexPair(h1, h2) == IF h1 < 0 \/ h2 < 0 THEN -1 ELSE 16 * h1 + h2

\* the printable ASCII characters, code 32 to code 126; a string of this
\* language cannot hold the grave accent (code 96), a tab stands in its place
AsciiChars ==
    " !\"#$%&'()*+,-./0123456789:;<=>?@ABCDEFGHIJKLMNOPQRSTUVWXYZ[\\]^_"
        \o "\t" \o "abcdefghijklmnopqrstuvwxyz{|}~"

\* the characters decodeURI leaves percent-encoded (uriReserved plus '#')
UriReserved == ";/?:@&=+$,#"

URIError == "URIError"

\* c in front of the decoded rest, unless the rest is malformed
PrependTo(rest, c) == IF rest = URIError THEN URIError ELSE c \o rest

\* the decoded character c of the escape sequence esc: a reserved character
\* stays escaped
DecodedChar(c, esc, rest) ==
    PrependTo(rest, IF IndexOf(UriReserved, c) > 0 THEN esc ELSE c)

DecodeEscape(code, esc, rest) ==
    IF code < 32 \/ code > 126 THEN URIError
    ELSE DecodedChar(CharAt(AsciiChars, code - 31), esc, rest)

RECURSIVE decodeURI(_)
\* the decoded string, or URIError for a malformed escape sequence;
\* escapes of control characters and of bytes above 127 (well formed only
\* as parts of a UTF-8 sequence) do not occur in the URLs of this model
decodeURI(s) ==
    IF s = "" THEN ""
    ELSE IF CharAt(s, 1) # "%"
         THEN PrependTo(decodeURI(SubSeq(s, 2, Len(s))), CharAt(s, 1))
    ELSE IF Len(s) < 3 THEN URIError
    ELSE DecodeEscape(HexPair(HexValue(CharAt(s, 2)), HexValue(CharAt(s, 3))),
                      SubSeq(s, 1, 3), decodeURI(SubSeq(s, 4, Len(s))))

(***************************************************************************)
(* url.parse(...).pathname                                                 *)
(***************************************************************************)
\* position of the first '?' or '#' of s, Len(s) + 1 when there is none
FirstOf(q, h, none) ==
    IF q = 0 /\ h = 0 THEN none
    ELSE IF q = 0 THEN h
    ELSE IF h = 0 THEN q
    ELSE IF q < h THEN q ELSE h

PathEnd(s) == FirstOf(IndexOf(s, "?"), IndexOf(s, "#"), Len(s) + 1)

\* pathname of a request target in origin form: everything before the query
\* string and the fragment
urlPathname(s) == SubSeq(s, 1, PathEnd(s) - 1)

(***************************************************************************)
(* path.join, path.normalize, path.extname (posix)                         *)
(***************************************************************************)
RECURSIVE SplitSlash(_), SplitAt(_, _)
\* the non-empty segments of s between '/' characters
SplitSlash(s) == SplitAt(s, IndexOf(s, "/"))

SplitAt(s, k) ==
    IF s = "" THEN << >>
    ELSE IF k = 0 THEN << s >>
    ELSE IF k = 1 THEN SplitSlash(SubSeq(s, 2, Len(s)))
    ELSE << SubSeq(s, 1, k - 1) >> \o SplitSlash(SubSeq(s, k + 1, Len(s)))

\* the stack res after segment g
PushSeg(res, g, allowAboveRoot) ==
    IF g = "." THEN res
    ELSE IF g = ".."
         THEN IF Len(res) > 0 /\ res[Len(res)] # ".."
              THEN SubSeq(res, 1, Len(res) - 1)
              ELSE IF allowAboveRoot THEN Append(res, "..") ELSE res
    ELSE Append(res, g)

RECURSIVE NormalizeSegs(_, _, _)
\* normalizeString: resolves '.' and '..' segments; res is the stack so far
NormalizeSegs(segs, res, allowAboveRoot) ==
    IF segs = << >> THEN res
    ELSE NormalizeSegs(Tail(segs), PushSeg(res, Head(segs), allowAboveRoot), allowAboveRoot)

RECURSIVE JoinSlash(_)
JoinSlash(segs) ==
    IF segs = << >> THEN ""
    ELSE IF Len(segs) = 1 THEN segs[1]
    ELSE segs[1] \o "/" \o JoinSlash(Tail(segs))

\* the normalized path from its normalized segments
NormalizedPath(body, isAbsolute, trailingSeparator) ==
    IF isAbsolute
    THEN "/" \o body \o (IF body # "" /\ trailingSeparator THEN "/" ELSE "")
    ELSE IF body = "" THEN (IF trailingSeparator THEN "./" ELSE ".")
    ELSE body \o (IF trailingSeparator THEN "/" ELSE "")

NormalizeFrom(p, isAbsolute) ==
    NormalizedPath(JoinSlash(NormalizeSegs(SplitSlash(p), << >>, ~isAbsolute)),
                   isAbsolute, CharAt(p, Len(p)) = "/")

pathNormalize(p) == IF p = "" THEN "." ELSE NormalizeFrom(p, CharAt(p, 1) = "/")

pathJoin(a, b) ==
    IF a = "" /\ b = "" THEN "."
    ELSE IF a = "" THEN pathNormalize(b)
    ELSE IF b = "" THEN pathNormalize(a)
    ELSE pathNormalize(a \o "/" \o b)

RECURSIVE StripTrailingSlashes(_)
StripTrailingSlashes(p) ==
    IF Len(p) > 1 /\ CharAt(p, Len(p)) = "/"
    THEN StripTrailingSlashes(SubSeq(p, 1, Len(p) - 1))
    ELSE p

\* the last segment of p, trailing separators ignored
LastSegment(q) == SubSeq(q, LastIndexFrom(q, "/", Len(q)) + 1, Len(q))

Basename(p) == LastSegment(StripTrailingSlashes(p))

\* the extension of the base name b, from its last dot on; none when the
\* only dot is the first character
ExtFrom(b, d) == IF d <= 1 \/ b = ".." THEN "" ELSE SubSeq(b, d, Len(b))

ExtOf(b) == ExtFrom(b, LastIndexFrom(b, ".", Len(b)))

pathExtname(p) == ExtOf(Basename(p))

(***************************************************************************)
(* State.                                                                  *)
(***************************************************************************)
VARIABLES
    argv,           \* process.argv.slice(2); << >> when the server is used as a library
    launch,         \* "cli": started by App.start, "api": new HttpFsServer(config)
    started,        \* the server is listening
    startErrors,    \* IStartResult.errors, or the error App.start was rejected with
    config,         \* HttpFsServer.config
    mimeMap,        \* HttpFsServer.mimeMap
    basePath,       \* HttpFsServer.basePath
    fs,             \* the file system: path relative to the working directory -> kind
    totalRequests,  \* HttpFsServer.totalRequests
    reqs,           \* the request/response pairs, indexed by request id
    crashed         \* an exception escaped a callback of the event loop

vars == << argv, launch, started, startErrors, config, mimeMap, basePath, fs,
           totalRequests, reqs, crashed >>

serverVars == << argv, launch, started, startErrors, config, mimeMap, basePath >>

(***************************************************************************)
(* The command line layer: class App.                                      *)
(***************************************************************************)
NoMimeMap == << >>

\* JSON.parse of the --mime-map values of this model
JSONparse(s) ==
    CASE s = "{}" -> NoMimeMap
      [] s = "{\"ttf\":\"\"}" -> ("ttf" :> "")
      [] s = "{\"*\":\"\"}" -> ("*" :> "")
      [] s = "{\"js\":\"text/plain\",\"htm\":\"text/html\"}" ->
             ("js" :> "text/plain") @@ ("htm" :> "text/html")

RECURSIVE ToNumber(_, _)
\* unary plus on a string of decimal digits; 0 stands for NaN as well, both
\* being falsy where the result is used
ToNumber(s, acc) ==
    IF s = "" THEN acc
    ELSE LET d == IndexOf("0123456789", CharAt(s, 1))
         IN IF d = 0 THEN 0 ELSE ToNumber(SubSeq(s, 2, Len(s)), 10 * acc + (d - 1))

\* an IServerConfig none of whose fields is set; "" stands for undefined
EmptyConfig ==
    [ path |-> "", defaultFileName |-> "", port |-> 0, host |-> "", useSsl |-> FALSE,
      sslCertFile |-> "", sslKeyFile |-> "", mimeMap |-> NoMimeMap, notFoundFile |-> "",
      directoryListing |-> FALSE ]

ArgValue(args, i) == IF i <= Len(args) THEN args[i] ELSE ""

\* a check of the arguments that misses the key given without certificate
getArgumentsErrorsCertOnly(args) ==
    LET has(a) == \E i \in 1..Len(args) : args[i] = a
    IN IF has("--ssl-cert-file") /\ ~has("--ssl-key-file")
       THEN << "When --ssl-cert-file argument is provided, --ssl-key-file is required" >>
       ELSE << >>

getArgumentsErrors(args) ==
    LET has(a) == \E i \in 1..Len(args) : args[i] = a
    IN (IF has("--ssl-cert-file") /\ ~has("--ssl-key-file")
        THEN << "When --ssl-cert-file argument is provided, --ssl-key-file is required" >>
        ELSE << >>)
       \o
       (IF has("--ssl-key-file") /\ ~has("--ssl-cert-file")
        THEN << "When --ssl-key-file argument is provided, --ssl-cert-file is required" >>
        ELSE << >>)

RECURSIVE createConfigFrom(_, _, _)
\* the loop of createConfig from position i on; c is
\* [serverConfig, logEvents, error], error being the message of the Error thrown
createConfigFrom(args, i, c) ==
    IF i > Len(args) THEN c
    ELSE LET arg == args[i]
             v == ArgValue(args, i + 1)
             sc == c.serverConfig
             set(f, x) == [c EXCEPT !.serverConfig = [sc EXCEPT ![f] = x]]
         IN CASE arg = "--path" -> createConfigFrom(args, i + 2, set("path", v))
              [] arg = "--default-file-name" ->
                     createConfigFrom(args, i + 2, set("defaultFileName", v))
              [] arg = "--use-ssl" -> createConfigFrom(args, i + 1, set("useSsl", TRUE))
              [] arg = "--ssl-cert-file" ->
                     createConfigFrom(args, i + 2, set("sslCertFile", v))
              [] arg = "--ssl-key-file" ->
                     createConfigFrom(args, i + 2, set("sslKeyFile", v))
              [] arg = "--host" -> createConfigFrom(args, i + 2, set("host", v))
              [] arg = "--port" ->
                     createConfigFrom(args, i + 2, set("port", ToNumber(v, 0)))
              [] arg = "--mime-map" ->
                     createConfigFrom(args, i + 2, set("mimeMap", JSONparse(v)))
              [] arg = "--not-found-file" ->
                     createConfigFrom(args, i + 2, set("notFoundFile", v))
              [] arg = "--log-events" ->
                     createConfigFrom(args, i + 1, [c EXCEPT !.logEvents = TRUE])
              [] arg = "--directory-listing" ->
                     createConfigFrom(args, i + 1, set("directoryListing", TRUE))
              [] OTHER -> [c EXCEPT !.error = "Unknown argument " \o arg]

createConfig(args) ==
    createConfigFrom(args, 1, [serverConfig |-> EmptyConfig, logEvents |-> FALSE, error |-> ""])

DefaultHttpPort == 80
DefaultHttpsPort == 443

createServerConfigWithDefaults(sourceConfig) ==
    LET inferredDefaultPort == IF sourceConfig.useSsl THEN DefaultHttpsPort ELSE DefaultHttpPort
    IN [ defaultFileName |-> IF sourceConfig.defaultFileName # ""
                             THEN sourceConfig.defaultFileName ELSE "index.html",
         host |-> IF sourceConfig.host # "" THEN sourceConfig.host ELSE "127.0.0.1",
         mimeMap |-> sourceConfig.mimeMap,
         notFoundFile |-> sourceConfig.notFoundFile,
         path |-> IF sourceConfig.path # "" THEN sourceConfig.path ELSE ".",
         port |-> IF sourceConfig.port # 0 THEN sourceConfig.port ELSE inferredDefaultPort,
         sslCertFile |-> sourceConfig.sslCertFile,
         sslKeyFile |-> sourceConfig.sslKeyFile,
         useSsl |-> sourceConfig.useSsl,
         directoryListing |-> sourceConfig.directoryListing ]

(***************************************************************************)
(* The MIME map.                                                           *)
(***************************************************************************)
BuiltinMimeMap ==
    ("css" :> "text/css") @@ ("gif" :> "image/gif") @@ ("html" :> "text/html")
    @@ ("ico" :> "image/x-icon") @@ ("jpeg" :> "image/jpeg") @@ ("jpg" :> "image/jpeg")
    @@ ("js" :> "application/javascript") @@ ("json" :> "application/json")
    @@ ("otf" :> "font/otf") @@ ("png" :> "image/png") @@ ("svg" :> "image/svg+xml")
    @@ ("ttf" :> "font/ttf") @@ ("txt" :> "text/plain") @@ ("woff" :> "font/woff")
    @@ ("woff2" :> "font/woff2") @@ ("." :> "application/octet-stream")
    @@ ("*" :> "application/octet-stream")

\* a merge that skips the overrides with an empty content type
createMimeMapSkipEmpty(overwrites) ==
    [k \in DOMAIN BuiltinMimeMap \cup DOMAIN overwrites |->
        IF k \in DOMAIN overwrites /\ overwrites[k] # "" THEN overwrites[k] ELSE BuiltinMimeMap[k]]

createMimeMap(overwrites) ==
    [k \in DOMAIN BuiltinMimeMap \cup DOMAIN overwrites |->
        IF k \in DOMAIN overwrites THEN overwrites[k] ELSE BuiltinMimeMap[k]]

\* String.prototype.substring(1)
Substring1(s) == SubSeq(s, 2, Len(s))

\* a lookup in which an empty content type falls through to '*'
contentTypeOrStar(ext) ==
    IF ext \in DOMAIN mimeMap /\ mimeMap[ext] # "" THEN mimeMap[ext] ELSE mimeMap["*"]

\* the content type of the normalized extension ext
contentTypeOf(ext) == IF ext \in DOMAIN mimeMap THEN mimeMap[ext] ELSE mimeMap["*"]

\* files without extensions fall under the wildcard
extKeyStar(ext) == IF ext = "" THEN "*" ELSE ext

\* Files without extensions will map to . map
extKey(ext) == IF ext = "" THEN "." ELSE ext

\* a lookup that keeps the case of the extension
getMimeTypeCaseSensitive(fileExtension) ==
    contentTypeOf(extKey(Substring1(fileExtension)))

getMimeType(fileExtension) ==
    contentTypeOf(extKey(Substring1(toLowerCase(fileExtension))))

(***************************************************************************)
(* The file system.                                                        *)
(***************************************************************************)
\* kind of the node at path p as fs.stat finds it: "file", "dir", "enotdir"
\* (a file named with a trailing separator) or "missing"; a symbolic link
\* whose target is gone ("dangling") is a name fs.readdir reports and fs.stat
\* does not find
KindOf(f, n, q) ==
    IF q \notin DOMAIN f THEN "missing"
    ELSE IF f[q] = "dangling" THEN "missing"
    ELSE IF f[q] = "file" /\ q # n THEN "enotdir"
    ELSE f[q]

KindOfNormalized(f, n) == KindOf(f, n, StripTrailingSlashes(n))

FsKindIn(f, p) == KindOfNormalized(f, pathNormalize(p))

FsKind(p) == FsKindIn(fs, p)

existsSync(p) == FsKind(p) \in {"file", "dir"}

\* path.dirname of a normalized relative path
DirnameAt(p, k) == IF k = 0 THEN "." ELSE IF k = 1 THEN "/" ELSE SubSeq(p, 1, k - 1)

Dirname(p) == DirnameAt(p, LastIndexFrom(p, "/", Len(p)))

\* every path a file system of this model may hold, in the order readdir
\* reports the names
FsOrder ==
    << ".", "404.html", "nf", "nf/404.html", "r", "r/a.txt", "r/b.TXT", "r/d", "r/d/<&>\"'", "r/d/x.zzz",
       "r/index.html", "r/link", "r/m.ttf", "r/nf", "r/nf/404.html", "r/noext", "r/x.zzz", "s.txt" >>

\* fs.readdir: the names of the immediate children of directory d
ChildrenOf(q) ==
    LET IsChild(p) == p \in DOMAIN fs /\ p # "." /\ Dirname(p) = q
    IN SelectSeq(FsOrder, IsChild)

Basenames(kids) == [k \in 1..Len(kids) |-> Basename(kids[k])]

readdir(d) == Basenames(ChildrenOf(StripTrailingSlashes(pathNormalize(d))))

(***************************************************************************)
(* One request/response pair.                                              *)
(*                                                                         *)
(* closures: one entry per call of serveUrl for the request, holding the   *)
(* local variables the four listeners and the callbacks of that call close *)
(* over (fileReadStream, desiredPath), and the state of its read stream.   *)
(***************************************************************************)
NewRequest(method, url) ==
    [ method |-> method, url |-> url,
      closures |-> << >>,
      reentries |-> 0,          \* calls of serveUrl made by respondNotFound
      existsCalls |-> 0,        \* calls of fs.existsSync
      readdir |-> "none",       \* "none", "pending", "done"
      listDir |-> "",
      statusCode |-> 200,       \* response.statusCode
      contentType |-> "",       \* the Content-Type header, "" while not set
      headersSent |-> FALSE,
      sentStatus |-> 0,         \* the status of the status line once sent
      body |-> << >>,           \* what was written to the connection
      endCount |-> 0,           \* calls of response.end
      finished |-> FALSE,       \* 'finish' was emitted
      reqError |-> FALSE, connClosed |-> FALSE, resError |-> FALSE,
      events |-> << >>,         \* what eventEmitter emitted for this request
      threw |-> FALSE ]

NewClosure(requestUrl, viaNotFound) ==
    [ url |-> requestUrl, viaNotFound |-> viaNotFound,
      desiredPath |-> "", statPath |-> "",
      stat |-> "none",          \* "none", "pending", "done"
      stream |-> "unset",       \* "unset", "opening", "open", "closed"
      fdKind |-> "",            \* kind of the node the stream has open
      pos |-> 0,                \* chunks read
      paused |-> FALSE,         \* a write returned false and no 'drain' followed
      closeCalls |-> 0,         \* calls of stream.close()
      releases |-> 0 ]          \* times the file descriptor was released

Text(v) == [t |-> "text", v |-> v]
Chunk(p, n) == [t |-> "chunk", path |-> p, n |-> n]

\* a method gate that lets every method through
isAnyMethodSupported(httpMethod) == TRUE

isHttpMethodSupported(httpMethod) == httpMethod = "GET"

\* a safety check that looks at the path component only
isUrlSafePathOnly(urlValue) == IndexOf(urlPathname(urlValue), "..") = 0

\* Consider URL is safe if empty or if not containing any double dots (..)
isUrlSafe(urlValue) == urlValue = "" \/ IndexOf(urlValue, "..") = 0

joinBasePath(decodedUrl) ==
    IF decodedUrl = URIError THEN URIError ELSE pathJoin(basePath, decodedUrl)

\* a resolution that joins the whole request target, query string and
\* fragment included
getDesiredPathRaw(requestUrl) == joinBasePath(decodeURI(requestUrl))

\* the desired path, or URIError when decodeURI throws
getDesiredPath(requestUrl) == joinBasePath(decodeURI(urlPathname(requestUrl)))

\* response.write(data) of the first bytes sends the header with the status
\* code set at that moment
SendHeaders(q) ==
    IF q.headersSent THEN q
    ELSE [q EXCEPT !.headersSent = TRUE, !.sentStatus = q.statusCode]

\* response.end(data): ends the response once; an end of a response whose
\* connection is gone counts but sends nothing; `data` is << >> or one item
responseEnd(q, data) ==
    IF q.endCount > 0 \/ q.connClosed
    THEN [q EXCEPT !.endCount = @ + 1]
    ELSE [SendHeaders(q) EXCEPT !.endCount = @ + 1, !.body = @ \o data]

\* stream.close() releases the descriptor of a stream that is not yet closed
StreamClose(c) ==
    IF c.stream \in {"opening", "open"}
    THEN [c EXCEPT !.stream = "closed", !.closeCalls = @ + 1, !.releases = @ + 1]
    ELSE [c EXCEPT !.closeCalls = @ + 1]

closeReadStream(c) == IF c.stream # "unset" THEN StreamClose(c) ELSE c

\* the listeners of one call of serveUrl for 'error' and 'close' of the
\* request and 'error' of the response
closeHook(c) == closeReadStream(c)

RunCloseHooks(q) ==
    [q EXCEPT !.closures = [i \in 1..Len(q.closures) |-> closeHook(q.closures[i])]]

emit(q, e) == [q EXCEPT !.events = Append(@, e)]

\* serveUrl once getDesiredPath has returned desiredPath or thrown: the
\* listeners are attached before, fs.stat is called after
serveUrlAt(q, c, desiredPath) ==
    IF desiredPath = URIError
    THEN [q EXCEPT !.closures = Append(@, c), !.threw = TRUE]
    ELSE [q EXCEPT !.closures = Append(@, [c EXCEPT !.desiredPath = desiredPath,
                                                    !.statPath = desiredPath,
                                                    !.stat = "pending"])]

serveUrl(q, requestUrl, viaNotFound) ==
    serveUrlAt(q, NewClosure(requestUrl, viaNotFound), getDesiredPath(requestUrl))

\* a NotFound path that serves the configured not-found file without looking
\* for it
respondNotFoundUnchecked(q) ==
    IF config.notFoundFile # ""
    THEN serveUrl([q EXCEPT !.existsCalls = @ + 1, !.reentries = @ + 1],
                  config.notFoundFile, TRUE)
    ELSE responseEnd([q EXCEPT !.statusCode = 404], << Text("Not Found") >>)

respondNotFound(q) ==
    IF config.notFoundFile # ""
    THEN IF existsSync(config.notFoundFile)
         THEN serveUrl([q EXCEPT !.existsCalls = @ + 1, !.reentries = @ + 1],
                       config.notFoundFile, TRUE)
         ELSE responseEnd([q EXCEPT !.existsCalls = @ + 1, !.statusCode = 404],
                          << Text("Not Found") >>)
    ELSE responseEnd([q EXCEPT !.statusCode = 404], << Text("Not Found") >>)

respondMethodNotAllowed(q) ==
    responseEnd([q EXCEPT !.statusCode = 405], << Text("Method Not Allowed") >>)

respondInternalServerError(q) ==
    responseEnd([q EXCEPT !.statusCode = 500], << Text("Internal Server Error") >>)

\* requestCallback after emitRequestArrived
dispatch(q) ==
    IF ~isHttpMethodSupported(q.method) THEN respondMethodNotAllowed(q)
    ELSE IF ~isUrlSafe(q.url) THEN respondNotFound(q)
    ELSE serveUrl(q, q.url, FALSE)

\* a request callback that reads the counter before it counts the request
requestCallbackStale(method, url, requestId) ==
    dispatch(emit(NewRequest(method, url),
                  [name |-> "request-arrived", requestId |-> requestId - 1]))

\* a request callback that announces the request once it has passed the gates
requestCallbackGatesFirst(method, url, requestId) ==
    IF ~isHttpMethodSupported(method) THEN respondMethodNotAllowed(NewRequest(method, url))
    ELSE IF ~isUrlSafe(url) THEN respondNotFound(NewRequest(method, url))
    ELSE dispatch(emit(NewRequest(method, url),
                       [name |-> "request-arrived", requestId |-> requestId]))

requestCallback(method, url, requestId) ==
    dispatch(emit(NewRequest(method, url),
                  [name |-> "request-arrived", requestId |-> requestId]))

\* the callback of fs.stat from createFileReadStream on
openStream(q, i, desiredPath) ==
    \* setHeader throws once the header is sent
    IF q.headersSent
    THEN [q EXCEPT !.closures[i].stream = "opening", !.threw = TRUE]
    ELSE [q EXCEPT !.closures[i].stream = "opening"]

\* the callback of fs.stat from the MIME check on
resolveFile(q, i, requestId, desiredPath, mimeType) ==
    IF mimeType = ""
    THEN respondNotFound([q EXCEPT !.closures[i].desiredPath = desiredPath])
    ELSE openStream(emit([q EXCEPT !.closures[i].desiredPath = desiredPath,
                                   !.contentType = IF q.headersSent THEN @ ELSE mimeType],
                         [name |-> "file-resolved", requestId |-> requestId,
                          path |-> desiredPath, contentType |-> mimeType]),
                    i, desiredPath)

serveFile(q, i, requestId, desiredPath) ==
    resolveFile(q, i, requestId, desiredPath, getMimeType(pathExtname(desiredPath)))

\* a stat callback that joins the default file name without looking at it
statResultAlwaysJoin(q, i, requestId, kind) ==
    IF kind \notin {"file", "dir"}
    THEN respondNotFound([q EXCEPT !.closures[i] = closeReadStream(@)])
    ELSE IF kind = "dir" /\ config.directoryListing
    THEN [q EXCEPT !.readdir = "pending", !.listDir = q.closures[i].desiredPath]
    ELSE serveFile(q, i, requestId,
                   IF kind = "dir"
                   THEN pathJoin(q.closures[i].desiredPath, config.defaultFileName)
                   ELSE q.closures[i].desiredPath)

\* a stat callback that serves the default document of a directory when one
\* is configured, and lists the directory only when none is
statResultDocumentFirst(q, i, requestId, kind) ==
    IF kind \notin {"file", "dir"}
    THEN respondNotFound([q EXCEPT !.closures[i] = closeReadStream(@)])
    ELSE IF kind = "dir" /\ config.defaultFileName = "" /\ config.directoryListing
    THEN [q EXCEPT !.readdir = "pending", !.listDir = q.closures[i].desiredPath]
    ELSE IF kind = "dir" /\ config.defaultFileName = ""
    THEN respondNotFound(q)
    ELSE serveFile(q, i, requestId,
                   IF kind = "dir"
                   THEN pathJoin(q.closures[i].desiredPath, config.defaultFileName)
                   ELSE q.closures[i].desiredPath)

\* the callback of fs.stat, kind being what fs.stat reports
statResult(q, i, requestId, kind) ==
    IF kind \notin {"file", "dir"}
    THEN respondNotFound([q EXCEPT !.closures[i] = closeReadStream(@)])
    ELSE IF kind = "dir" /\ config.directoryListing
    THEN [q EXCEPT !.readdir = "pending", !.listDir = q.closures[i].desiredPath]
    ELSE IF kind = "dir" /\ config.defaultFileName = ""
    THEN respondNotFound(q)
    ELSE serveFile(q, i, requestId,
                   IF kind = "dir"
                   THEN pathJoin(q.closures[i].desiredPath, config.defaultFileName)
                   ELSE q.closures[i].desiredPath)

\* a stat callback of a server that serves its first request only
statCallbackFirstOnly(q, i, requestId) ==
    statResult([q EXCEPT !.closures[i].stat = "done"], i, requestId,
               IF requestId = 1 THEN FsKind(q.closures[i].desiredPath) ELSE "missing")

\* the callback of fs.stat of call i of serveUrl
statCallback(q, i, requestId) ==
    statResult([q EXCEPT !.closures[i].stat = "done"], i, requestId,
               FsKind(q.closures[i].desiredPath))

\* an 'error' listener that takes every read error for a missing file
streamErrorHandlerAllNotFound(q, i, code) ==
    respondNotFound([q EXCEPT !.closures[i] = closeReadStream(@)])

\* the 'error' listener of the read stream of call i
streamErrorHandler(q, i, code) ==
    IF code = "ENOENT"
    THEN respondNotFound([q EXCEPT !.closures[i] = closeReadStream(@)])
    ELSE respondInternalServerError([q EXCEPT !.closures[i] = closeReadStream(@)])

\* the directory entries respondDirectoryListing collects: statSync of an
\* entry that is neither file nor directory, or that fails, drops the entry
statSync(entryPath) == [path |-> entryPath, kind |-> FsKind(entryPath)]

entriesOf(directory, files) ==
    LET stats == [k \in 1..Len(files) |-> statSync(pathJoin(directory, files[k]))]
        Listed(e) == e.kind \in {"file", "dir"}
        listed == SelectSeq(stats, Listed)
    IN [k \in 1..Len(listed) |->
           [path |-> listed[k].path, isDirectory |-> listed[k].kind = "dir"]]

dirEntries(directory) == entriesOf(directory, readdir(directory))

\* String.prototype.replace(/c/g, rep) for one character c
RECURSIVE replaceAll(_, _, _)
replaceAll(s, c, rep) ==
    IF s = "" THEN ""
    ELSE (IF CharAt(s, 1) = c THEN rep ELSE CharAt(s, 1))
            \o replaceAll(SubSeq(s, 2, Len(s)), c, rep)

\* the five replacements in the order the code makes them
escapeForHtmlContent(text) ==
    replaceAll(replaceAll(replaceAll(replaceAll(replaceAll(text,
        "<", "&lt;"), ">", "&gt;"), "&", "&amp;"), "\"", "&quot;"), "'", "&#39;")

\* the characters the global function escape leaves as they are
EscapeUnchanged ==
    "ABCDEFGHIJKLMNOPQRSTUVWXYZabcdefghijklmnopqrstuvwxyz0123456789@*_+-./"

UpperHexDigits == "0123456789ABCDEF"

\* %XX for the character with code `code`
HexByte(code) ==
    "%" \o CharAt(UpperHexDigits, (code \div 16) + 1) \o CharAt(UpperHexDigits, (code % 16) + 1)

escapeChar(c) ==
    IF IndexOf(EscapeUnchanged, c) > 0 THEN c ELSE HexByte(IndexOf(AsciiChars, c) + 31)

RECURSIVE escape(_)
\* the global function escape, for strings of printable ASCII characters
escape(s) == IF s = "" THEN "" ELSE escapeChar(CharAt(s, 1)) \o escape(SubSeq(s, 2, Len(s)))

\* the visible text of the anchor of an entry
entryText(htmlEscapedName, isDirectory) ==
    IF isDirectory THEN htmlEscapedName \o "/" ELSE htmlEscapedName

\* getEntriesHtml: one list item with one anchor per entry, in the order given
getEntriesHtml(heading, directoryEntries) ==
    [heading |-> heading,
     anchors |-> [k \in 1..Len(directoryEntries) |->
                    [href |-> escape(directoryEntries[k].path),
                     text |-> entryText(escapeForHtmlContent(directoryEntries[k].path),
                                        directoryEntries[k].isDirectory),
                     class |-> IF directoryEntries[k].isDirectory THEN "directory" ELSE "file"]]]

\* the content of the document: the 'Folders' section when there is a
\* directory, then the 'Files' section
directoryContent(directories, files) ==
    IF Len(directories) > 0
    THEN << getEntriesHtml("Folders", directories), getEntriesHtml("Files", files) >>
    ELSE << getEntriesHtml("Files", files) >>

\* a listing that renders every entry in the 'Files' section
getDirectoryHtmlUnsplit(entries) ==
    [t |-> "listing", sections |-> directoryContent(<< >>, entries)]

\* getDirectoryHtml: Array.prototype.sort without a comparator orders objects
\* by their string value, the same for all: the order of the entries is kept
getDirectoryHtml(entries) ==
    LET IsDir(e) == e.isDirectory
        IsFile(e) == ~e.isDirectory
    IN [t |-> "listing",
        sections |-> directoryContent(SelectSeq(entries, IsDir), SelectSeq(entries, IsFile))]

\* a readdir callback that takes a failed enumeration for a missing directory
readdirCallbackNotFound(q, err) ==
    IF err THEN respondNotFound([q EXCEPT !.readdir = "done"])
    ELSE responseEnd([q EXCEPT !.readdir = "done"],
                     << getDirectoryHtml(dirEntries(q.listDir)) >>)

readdirCallback(q, err) ==
    IF err THEN respondInternalServerError([q EXCEPT !.readdir = "done"])
    ELSE responseEnd([q EXCEPT !.readdir = "done"],
                     << getDirectoryHtml(dirEntries(q.listDir)) >>)

(***************************************************************************)
(* Inputs.                                                                 *)
(***************************************************************************)
Methods == {"GET", "POST"}

Urls ==
    { "/a.txt", "/", "/d", "/missing.txt", "/m.ttf", "/x.zzz", "/noext", "/b.TXT",
      "/%2e%2e/s.txt", "/../s.txt", "/a.txt?v=1..2", "/%zz", "",
      "/a.txt/", "/a.txt?v=1", "/a.txt#top" }

\* the command lines App.start is run with
ArgVectors ==
    { << >>,
      << "--path", "r" >>,
      << "--path", "r", "--default-file-name", "" >>,
      << "--path", "r", "--directory-listing", "--log-events" >>,
      << "--path", "r", "--not-found-file", "nf/404.html" >>,
      << "--not-found-file", "404.html", "--mime-map", "{\"ttf\":\"\"}" >>,
      << "--use-ssl", "--host", "0.0.0.0", "--port", "8443" >>,
      << "--use-ssl", "--ssl-cert-file", "cert.pem", "--ssl-key-file", "key.pem" >>,
      << "--ssl-cert-file", "cert.pem" >>,
      << "--ssl-key-file", "key.pem" >>,
      << "--path", "r", "--ssl-cert-file", "cert.pem", "--ssl-key-file", "key.pem" >>,
      << "--response-header", "x:y" >> }

Overrides == { NoMimeMap, "ttf" :> "", "*" :> "", "." :> "" }

NotFoundFiles == { "", "404.html", "nf/404.html", "gone.html" }

\* the configurations HttpFsServer is constructed with as a library
ApiConfigs ==
    { [EmptyConfig EXCEPT !.path = "r", !.host = "127.0.0.1", !.port = 80,
                          !.directoryListing = dl, !.defaultFileName = dfn,
                          !.notFoundFile = nff, !.mimeMap = ov] :
        dl \in BOOLEAN, dfn \in {"", "index.html"}, nff \in NotFoundFiles, ov \in Overrides }

InitialFs ==
    [p \in { FsOrder[k] : k \in 1..Len(FsOrder) } |->
        IF p \in {".", "nf", "r", "r/d", "r/nf"} THEN "dir"
        ELSE IF p = "r/link" THEN "dangling"
        ELSE "file"]

(***************************************************************************)
(* Start: App.start, or the constructor and start() of HttpFsServer.       *)
(***************************************************************************)
\* HttpFsServer.start reads the certificate files when both are configured
startThrows(cfg) ==
    /\ cfg.useSsl /\ cfg.sslCertFile # "" /\ cfg.sslKeyFile # ""
    /\ ~(FsKindIn(InitialFs, cfg.sslCertFile) = "file"
         /\ FsKindIn(InitialFs, cfg.sslKeyFile) = "file")

Serving(cfg) ==
    /\ started = TRUE
    /\ startErrors = << >>
    /\ config = cfg
    /\ mimeMap = createMimeMap(cfg.mimeMap)
    /\ basePath = cfg.path

NotServing(errors) ==
    /\ started = FALSE
    /\ startErrors = errors
    /\ config = EmptyConfig
    /\ mimeMap = NoMimeMap
    /\ basePath = ""

AppStart(args) ==
    LET argErrors == getArgumentsErrors(args)
        appConfig == createConfig(args)
        serverConfig == createServerConfigWithDefaults(appConfig.serverConfig)
    IN /\ launch = "cli"
       /\ argv = args
       /\ IF Len(argErrors) > 0 THEN NotServing(argErrors)
          ELSE IF appConfig.error # "" THEN NotServing(<< appConfig.error >>)
          ELSE IF startThrows(serverConfig) THEN NotServing(<< "ENOENT" >>)
          ELSE Serving(serverConfig)

ApiStart(cfg) ==
    /\ launch = "api"
    /\ argv = << >>
    /\ Serving(cfg)

Init ==
    /\ \/ \E args \in ArgVectors : AppStart(args)
       \/ \E cfg \in ApiConfigs : ApiStart(cfg)
    /\ fs = InitialFs
    /\ totalRequests = 0
    /\ reqs = << >>
    /\ crashed = FALSE

(***************************************************************************)
(* Actions.                                                                *)
(***************************************************************************)
Running == started /\ ~crashed

\* replaces request r by q; an exception thrown by the handler ends the process
Update(r, q) ==
    /\ q.reentries <= MaxReentry
    /\ reqs' = [reqs EXCEPT ![r] = q]
    /\ crashed' = q.threw

Accept(q) ==
    /\ q.reentries <= MaxReentry
    /\ reqs' = Append(reqs, q)
    /\ crashed' = q.threw

\* the server accepts a request, the run accepting `limit` requests at most
ArriveUpTo(limit, method, url) ==
    /\ Running
    /\ totalRequests < limit
    /\ Accept(requestCallback(method, url, totalRequests + 1))
    /\ totalRequests' = totalRequests + 1
    /\ UNCHANGED << serverVars, fs >>

\* the server accepts a request
Arrive(method, url) == ArriveUpTo(MaxRequests, method, url)

\* a stat callback that keeps the path it resolved in the base path of the
\* server
StatCallbackSharedPath(r, i) ==
    /\ Running
    /\ reqs[r].closures[i].stat = "pending"
    /\ Update(r, statCallback(reqs[r], i, r))
    /\ basePath' = reqs[r].closures[i].desiredPath
    /\ UNCHANGED << argv, launch, started, startErrors, config, mimeMap, fs, totalRequests >>

\* fs.stat calls back
StatCallback(r, i) ==
    /\ Running
    /\ reqs[r].closures[i].stat = "pending"
    /\ Update(r, statCallback(reqs[r], i, r))
    /\ UNCHANGED << serverVars, fs, totalRequests >>

\* fs.readdir calls back, with or without an error
ReaddirCallback(r, err) ==
    /\ Running
    /\ reqs[r].readdir = "pending"
    /\ Update(r, readdirCallback(reqs[r], err))
    /\ UNCHANGED << serverVars, fs, totalRequests >>

\* fs.open of the read stream of call i has found a node of kind `kind`
streamOpened(q, i, kind) ==
    IF kind \in {"file", "dir"}
    THEN [q EXCEPT !.closures[i].stream = "open", !.closures[i].fdKind = kind]
    ELSE streamErrorHandler(q, i, IF kind = "missing" THEN "ENOENT" ELSE "ENOTDIR")

\* the read stream has opened its file, or failed to
StreamOpen(r, i) ==
    /\ Running
    /\ reqs[r].closures[i].stream = "opening"
    /\ Update(r, streamOpened(reqs[r], i, FsKind(reqs[r].closures[i].desiredPath)))
    /\ UNCHANGED << serverVars, fs, totalRequests >>

\* the read stream reads a chunk and the pipe writes it to the response;
\* the write to a connection that is gone returns false, and the pipe
\* pauses the stream until a 'drain' that never comes
StreamData(r, i) ==
    /\ Running
    /\ LET q == reqs[r]
           c == q.closures[i]
       IN /\ c.stream = "open" /\ c.fdKind = "file" /\ ~c.paused
          /\ c.pos < FileChunks
          /\ q.endCount = 0
          /\ IF q.connClosed
             THEN Update(r, [q EXCEPT !.closures[i].pos = @ + 1,
                                      !.closures[i].paused = TRUE])
             ELSE Update(r, [SendHeaders(q) EXCEPT
                                !.closures[i].pos = @ + 1,
                                !.body = Append(@, Chunk(c.desiredPath, c.pos + 1))])
    /\ UNCHANGED << serverVars, fs, totalRequests >>

\* a pipe that ends the response before the last chunk of the file
StreamEndEarly(r, i) ==
    /\ Running
    /\ LET q == reqs[r]
           c == q.closures[i]
       IN /\ c.stream = "open" /\ c.fdKind = "file" /\ ~c.paused
          /\ c.pos >= 1
          /\ Update(r, responseEnd([q EXCEPT !.closures[i].stream = "closed",
                                             !.closures[i].releases = @ + 1], << >>))
    /\ UNCHANGED << serverVars, fs, totalRequests >>

\* the read stream reaches the end of the file: it closes itself (autoClose)
\* and the pipe ends the response
StreamEnd(r, i) ==
    /\ Running
    /\ LET q == reqs[r]
           c == q.closures[i]
       IN /\ c.stream = "open" /\ c.fdKind = "file" /\ ~c.paused
          /\ c.pos = FileChunks
          /\ Update(r, responseEnd([q EXCEPT !.closures[i].stream = "closed",
                                             !.closures[i].releases = @ + 1], << >>))
    /\ UNCHANGED << serverVars, fs, totalRequests >>

\* a read fails: EISDIR when the stream has a directory open, an I/O error else
StreamReadError(r, i) ==
    /\ Running
    /\ LET q == reqs[r]
           c == q.closures[i]
       IN /\ c.stream = "open" /\ ~c.paused
          /\ c.fdKind = "dir" \/ c.pos < FileChunks
          /\ Update(r, streamErrorHandler(q, i, IF c.fdKind = "dir" THEN "EISDIR" ELSE "EIO"))
    /\ UNCHANGED << serverVars, fs, totalRequests >>

\* the request emits 'error'
ReqError(r) ==
    /\ Running
    /\ ~reqs[r].reqError /\ ~reqs[r].connClosed
    /\ Update(r, RunCloseHooks([reqs[r] EXCEPT !.reqError = TRUE]))
    /\ UNCHANGED << serverVars, fs, totalRequests >>

\* a 'close' of the request whose listeners close the read streams of every
\* request in flight, as with one stream reference kept by the server
ReqCloseShared(r) ==
    /\ Running
    /\ ~reqs[r].connClosed
    /\ reqs' = [o \in 1..Len(reqs) |->
                  RunCloseHooks(IF o = r THEN [reqs[o] EXCEPT !.connClosed = TRUE] ELSE reqs[o])]
    /\ crashed' = crashed
    /\ UNCHANGED << serverVars, fs, totalRequests >>

\* the connection closes: the request emits 'close'
ReqClose(r) ==
    /\ Running
    /\ ~reqs[r].connClosed
    /\ Update(r, RunCloseHooks([reqs[r] EXCEPT !.connClosed = TRUE]))
    /\ UNCHANGED << serverVars, fs, totalRequests >>

\* the response emits 'error'
ResError(r) ==
    /\ Running
    /\ ~reqs[r].resError /\ ~reqs[r].finished
    /\ Update(r, RunCloseHooks([reqs[r] EXCEPT !.resError = TRUE]))
    /\ UNCHANGED << serverVars, fs, totalRequests >>

\* the ended response is flushed: it emits 'finish', and the 'finish' listener
\* of every call of serveUrl emits response-sent
Finish(r) ==
    /\ Running
    /\ LET q == reqs[r]
       IN /\ q.endCount > 0 /\ ~q.finished /\ ~q.connClosed /\ ~q.resError
          /\ Update(r, [q EXCEPT !.finished = TRUE,
                                 !.events = @ \o [i \in 1..Len(q.closures) |->
                                     [name |-> "reponse-sent", requestId |-> r]]])
    /\ UNCHANGED << serverVars, fs, totalRequests >>

unlink(p) == [x \in DOMAIN fs \ {p} |-> fs[x]]

\* another process removes a file between its stat and its open
Vanish(r, i) ==
    /\ Running
    /\ reqs[r].closures[i].stream = "opening"
    /\ FsKind(reqs[r].closures[i].desiredPath) = "file"
    /\ fs' = unlink(StripTrailingSlashes(pathNormalize(reqs[r].closures[i].desiredPath)))
    /\ UNCHANGED << serverVars, totalRequests, reqs, crashed >>

Next ==
    \/ \E m \in Methods, u \in Urls : Arrive(m, u)
    \/ \E r \in 1..Len(reqs) : ReqError(r)
    \/ \E r \in 1..Len(reqs) : ReqClose(r)
    \/ \E r \in 1..Len(reqs) : ResError(r)
    \/ \E r \in 1..Len(reqs) : Finish(r)
    \/ \E r \in 1..Len(reqs), err \in BOOLEAN : ReaddirCallback(r, err)
    \/ \E r \in 1..Len(reqs) : \E i \in 1..Len(reqs[r].closures) : StatCallback(r, i)
    \/ \E r \in 1..Len(reqs) : \E i \in 1..Len(reqs[r].closures) : StreamOpen(r, i)
    \/ \E r \in 1..Len(reqs) : \E i \in 1..Len(reqs[r].closures) : StreamData(r, i)
    \/ \E r \in 1..Len(reqs) : \E i \in 1..Len(reqs[r].closures) : StreamEnd(r, i)
    \/ \E r \in 1..Len(reqs) : \E i \in 1..Len(reqs[r].closures) : StreamReadError(r, i)
    \/ \E r \in 1..Len(reqs) : \E i \in 1..Len(reqs[r].closures) : Vanish(r, i)

Spec == Init /\ [][Next]_vars

(***************************************************************************)
(* Two requests in flight at the same time, of a server used as a library  *)
(* with the root r and with or without directory listing.                  *)
(***************************************************************************)
MaxConcurrent == 2

PairMethods == {"GET", "POST"}

PairUrls == { "/a.txt", "/b.TXT", "/", "/missing.txt", "/../s.txt" }

PairConfigs ==
    { cfg \in ApiConfigs :
        /\ cfg.defaultFileName = "index.html"
        /\ cfg.notFoundFile = ""
        /\ cfg.mimeMap = NoMimeMap }

InitPair ==
    /\ \E cfg \in PairConfigs : ApiStart(cfg)
    /\ fs = InitialFs
    /\ totalRequests = 0
    /\ reqs = << >>
    /\ crashed = FALSE

ArrivePair(method, url) == ArriveUpTo(MaxConcurrent, method, url)

NextPair ==
    \/ \E m \in PairMethods, u \in PairUrls : ArrivePair(m, u)
    \/ \E r \in 1..Len(reqs) : ReqError(r)
    \/ \E r \in 1..Len(reqs) : ReqClose(r)
    \/ \E r \in 1..Len(reqs) : ResError(r)
    \/ \E r \in 1..Len(reqs) : Finish(r)
    \/ \E r \in 1..Len(reqs), err \in BOOLEAN : ReaddirCallback(r, err)
    \/ \E r \in 1..Len(reqs) : \E i \in 1..Len(reqs[r].closures) : StatCallback(r, i)
    \/ \E r \in 1..Len(reqs) : \E i \in 1..Len(reqs[r].closures) : StreamOpen(r, i)
    \/ \E r \in 1..Len(reqs) : \E i \in 1..Len(reqs[r].closures) : StreamData(r, i)
    \/ \E r \in 1..Len(reqs) : \E i \in 1..Len(reqs[r].closures) : StreamEnd(r, i)
    \/ \E r \in 1..Len(reqs) : \E i \in 1..Len(reqs[r].closures) : StreamReadError(r, i)
    \/ \E r \in 1..Len(reqs) : \E i \in 1..Len(reqs[r].closures) : Vanish(r, i)

SpecPair == InitPair /\ [][NextPair]_vars

(***************************************************************************)
(* Two GETs whose URLs carry a query string or a fragment, of the same     *)
(* server with directory listing.                                          *)
(***************************************************************************)
QueryUrls == { "/a.txt", "/a.txt?v=1", "/a.txt#top", "/?v=1" }

QueryConfigs == { cfg \in PairConfigs : cfg.directoryListing }

InitQuery ==
    /\ \E cfg \in QueryConfigs : ApiStart(cfg)
    /\ fs = InitialFs
    /\ totalRequests = 0
    /\ reqs = << >>
    /\ crashed = FALSE

ArriveQuery(url) == ArriveUpTo(MaxConcurrent, "GET", url)

NextQuery ==
    \/ \E u \in QueryUrls : ArriveQuery(u)
    \/ \E r \in 1..Len(reqs) : ReqError(r)
    \/ \E r \in 1..Len(reqs) : ReqClose(r)
    \/ \E r \in 1..Len(reqs) : ResError(r)
    \/ \E r \in 1..Len(reqs) : Finish(r)
    \/ \E r \in 1..Len(reqs), err \in BOOLEAN : ReaddirCallback(r, err)
    \/ \E r \in 1..Len(reqs) : \E i \in 1..Len(reqs[r].closures) : StatCallback(r, i)
    \/ \E r \in 1..Len(reqs) : \E i \in 1..Len(reqs[r].closures) : StreamOpen(r, i)
    \/ \E r \in 1..Len(reqs) : \E i \in 1..Len(reqs[r].closures) : StreamData(r, i)
    \/ \E r \in 1..Len(reqs) : \E i \in 1..Len(reqs[r].closures) : StreamEnd(r, i)
    \/ \E r \in 1..Len(reqs) : \E i \in 1..Len(reqs[r].closures) : StreamReadError(r, i)
    \/ \E r \in 1..Len(reqs) : \E i \in 1..Len(reqs[r].closures) : Vanish(r, i)

SpecQuery == InitQuery /\ [][NextQuery]_vars

(***************************************************************************)
(* Vocabulary of the properties.                                           *)
(***************************************************************************)
RequestIds == 1..Len(reqs)

Calls(q) == 1..Len(q.closures)

\* nothing of the handling of q is pending: no stat, no readdir, no stream
Quiescent(q) ==
    /\ q.readdir # "pending"
    /\ \A i \in Calls(q) : /\ q.closures[i].stat # "pending"
                           /\ q.closures[i].stream \in {"unset", "closed"}

\* q is a GET that passed the safety gate and whose fs.stat has called back
Resolved(q) ==
    /\ q.method = "GET"
    /\ IndexOf(q.url, "..") = 0
    /\ Len(q.closures) >= 1
    /\ ~q.closures[1].viaNotFound
    /\ q.closures[1].stat = "done"

\* the key of the MIME map the extension of path p is looked up under
MimeKey(p) == extKey(Substring1(toLowerCase(pathExtname(p))))

\* q is a resolved GET for a file that is on disk
ResolvedFile(q) == Resolved(q) /\ FsKind(q.closures[1].statPath) = "file"

NoFileResolvedFor(q, p) ==
    \A k \in 1..Len(q.events) :
        q.events[k].name = "file-resolved" => q.events[k].path # p

NoFileResolved(q) ==
    \A k \in 1..Len(q.events) : q.events[k].name # "file-resolved"

\* no not-found file is configured, or the configured one is not on disk
NoFallback ==
    config.notFoundFile = "" \/ FsKindIn(InitialFs, config.notFoundFile) = "missing"

\* the response of q is the plain 404
Plain404(q) ==
    /\ q.endCount = 1
    /\ q.statusCode = 404
    /\ q.headersSent => q.sentStatus = 404 /\ q.body = << Text("Not Found") >>

\* the whole content of the file at path p
CompleteBody(p) == [n \in 1..FileChunks |-> Chunk(p, n)]

\* the response of q is finished and is the file call i of serveUrl resolved
Success(q, i) ==
    /\ q.finished
    /\ q.sentStatus = 200
    /\ q.closures[i].stream = "closed"
    /\ q.body = CompleteBody(q.closures[i].desiredPath)

\* path p is the served root or lies below it
UnderRootOf(n, root) ==
    IF root = "." THEN ~StartsWith(n, "/") /\ n # ".." /\ ~StartsWith(n, "../")
    ELSE IF root = "/" THEN StartsWith(n, "/")
    ELSE n = root \/ StartsWith(n, root \o "/")

UnderRoot(p) ==
    UnderRootOf(StripTrailingSlashes(pathNormalize(p)),
                StripTrailingSlashes(pathNormalize(basePath)))

HasOption(args, name, value) ==
    \E k \in 1..(Len(args) - 1) : args[k] = name /\ args[k + 1] = value

(***************************************************************************)
(* C1 - C10.                                                               *)
(***************************************************************************)

\* C1: response.end is never called twice for a request, and once the
\* handling of a request has come to rest (no stat, readdir or stream
\* pending) it has been called exactly once.
C1_EndsExactlyOnce ==
    \A r \in RequestIds :
        /\ reqs[r].endCount <= 1
        /\ Quiescent(reqs[r]) /\ ~reqs[r].threw => reqs[r].endCount = 1

\* C2: respondNotFound re-enters serveUrl at most once per request.
C2_OneReentry ==
    \A r \in RequestIds : reqs[r].reentries <= 1

\* C3: the status sent for a GET whose URL contains '..' is 404.
C3_UnsafeUrlIs404 ==
    \A r \in RequestIds :
        reqs[r].method = "GET" /\ IndexOf(reqs[r].url, "..") > 0 /\ reqs[r].headersSent
            => reqs[r].sentStatus = 404

\* C4: for a GET that passed the safety gate, the path passed to fs.stat and
\* the path the read stream opens are the root or descendants of the root.
C4_StaysUnderRoot ==
    \A r \in RequestIds :
        reqs[r].method = "GET" /\ IndexOf(reqs[r].url, "..") = 0
            => \A i \in Calls(reqs[r]) :
                  ~reqs[r].closures[i].viaNotFound /\ reqs[r].closures[i].stat # "none"
                      => /\ UnderRoot(reqs[r].closures[i].statPath)
                         /\ UnderRoot(reqs[r].closures[i].desiredPath)

\* the request has terminated (finish, client abort or response error) and
\* none of its asynchronous steps is still to run; a stream is at rest when it
\* is closed or waits for a 'drain' of a connection that is gone
Terminated(q) ==
    /\ q.finished \/ q.connClosed \/ q.reqError \/ q.resError
    /\ q.readdir # "pending"
    /\ \A i \in Calls(q) :
          /\ q.closures[i].stat # "pending"
          /\ q.closures[i].stream \in {"unset", "closed"}
                \/ (q.closures[i].stream = "open" /\ q.closures[i].paused)

\* C5: once a request has terminated, every read stream opened for it is
\* closed.
C5_NoOpenStreamAfterTermination ==
    \A r \in RequestIds :
        Terminated(reqs[r])
            => \A i \in Calls(reqs[r]) : reqs[r].closures[i].stream \in {"unset", "closed"}

\* request r emits one of its terminal events in this step
TerminalEvent(r) ==
    \/ ~reqs[r].reqError /\ reqs'[r].reqError
    \/ ~reqs[r].connClosed /\ reqs'[r].connClosed
    \/ ~reqs[r].resError /\ reqs'[r].resError
    \/ ~reqs[r].finished /\ reqs'[r].finished

\* closeReadStream is idempotent: whichever terminal event fires, first or
\* after the others, the streams the request holds at that moment are closed
\* afterwards, and no descriptor is released twice
CloseIsIdempotentStep ==
    \A r \in RequestIds :
        TerminalEvent(r)
            => \A i \in Calls(reqs[r]) :
                  reqs[r].closures[i].stream # "unset"
                      => /\ reqs'[r].closures[i].stream = "closed"
                         /\ reqs'[r].closures[i].releases = 1

CloseIsIdempotent == [][CloseIsIdempotentStep]_vars

\* C6: every read stream a request has opened is closed exactly once, not
\* twice and, once the request has terminated, not zero times, whichever of
\* 'finish', request 'error', request 'close' and response 'error' fired
\* first.
C6_ClosedExactlyOnce ==
    \A r \in RequestIds : \A i \in Calls(reqs[r]) :
        /\ reqs[r].closures[i].releases <= 1
        /\ Terminated(reqs[r]) /\ reqs[r].closures[i].stream # "unset"
              => reqs[r].closures[i].releases = 1

\* no descriptor is released twice
C6_AtMostOnce ==
    \A r \in RequestIds : \A i \in Calls(reqs[r]) : reqs[r].closures[i].releases <= 1

\* C7: a request whose method is not GET is answered 405 'Method Not
\* Allowed' and nothing else is done for it: serveUrl is not called (no
\* stat, no stream), fs.existsSync is not called, no file-resolved event.
C7_MethodNotAllowed ==
    \A r \in RequestIds :
        reqs[r].method # "GET"
            => /\ reqs[r].endCount = 1
               /\ reqs[r].statusCode = 405 /\ reqs[r].sentStatus = 405
               /\ reqs[r].body = << Text("Method Not Allowed") >>
               /\ reqs[r].closures = << >>
               /\ reqs[r].readdir = "none"
               /\ reqs[r].existsCalls = 0
               /\ NoFileResolved(reqs[r])

C7_Witness ==
    \E r \in RequestIds :
        /\ reqs[r].method = "POST" /\ IndexOf(reqs[r].url, "..") > 0
        /\ reqs[r].finished /\ reqs[r].sentStatus = 405

\* the Content-Type of a successful file response is the value the MIME map
\* holds for the extension of the served file, or for '*' when it holds none
ContentTypeMatches ==
    \A r \in RequestIds : \A i \in Calls(reqs[r]) :
        Success(reqs[r], i)
            => reqs[r].contentType =
                  (IF MimeKey(reqs[r].closures[i].desiredPath) \in DOMAIN mimeMap
                   THEN mimeMap[MimeKey(reqs[r].closures[i].desiredPath)]
                   ELSE mimeMap["*"])

\* q is a resolved GET for a file on disk whose extension the MIME map does
\* not hold, '*' being mapped to the empty string
UnmappedAndStarEmpty(q) ==
    /\ ResolvedFile(q)
    /\ MimeKey(q.closures[1].statPath) \notin DOMAIN mimeMap
    /\ mimeMap["*"] = ""

\* C8 as stated: the content type is the mapped value, or the value of '*',
\* and with '*' empty a file with an unmapped extension gets 404.
C8_Original ==
    /\ ContentTypeMatches
    /\ \A r \in RequestIds :
          UnmappedAndStarEmpty(reqs[r]) /\ reqs[r].headersSent => reqs[r].sentStatus = 404

\* C8 amended: the content type is the mapped value, or the value of '*';
\* with '*' empty a file with an unmapped extension is not served (no stream
\* on it, no file-resolved event for it) and the request takes the NotFound
\* path, which is the plain 404 when no not-found file is there to serve.
C8_ContentType ==
    /\ ContentTypeMatches
    /\ \A r \in RequestIds :
          UnmappedAndStarEmpty(reqs[r])
              => /\ reqs[r].closures[1].stream = "unset"
                 /\ NoFileResolvedFor(reqs[r], reqs[r].closures[1].statPath)
                 /\ NoFallback => Plain404(reqs[r])

C8_Witness ==
    \E r \in RequestIds :
        /\ UnmappedAndStarEmpty(reqs[r])
        /\ reqs[r].finished /\ reqs[r].sentStatus = 404

\* q is a resolved GET for a file on disk whose extension is mapped to the
\* empty string
DisabledExtension(q) ==
    /\ ResolvedFile(q)
    /\ MimeKey(q.closures[1].statPath) \in DOMAIN mimeMap
    /\ mimeMap[MimeKey(q.closures[1].statPath)] = ""

\* C9 as stated: a file whose extension is mapped to the empty string gets
\* 404, no stream is opened and no file-resolved event is emitted.
C9_Original ==
    \A r \in RequestIds :
        DisabledExtension(reqs[r])
            => /\ reqs[r].headersSent => reqs[r].sentStatus = 404
               /\ \A i \in Calls(reqs[r]) : reqs[r].closures[i].stream = "unset"
               /\ NoFileResolved(reqs[r])

\* C9 amended: a file whose extension is mapped to the empty string is never
\* opened and no file-resolved event is emitted for it, whatever '*' maps
\* to; the request takes the NotFound path: when no not-found file is there
\* to serve, the response is the plain 404, no stream is opened and no
\* file-resolved event is emitted at all.
C9_DisabledExtensionRefused ==
    \A r \in RequestIds :
        DisabledExtension(reqs[r])
            => /\ reqs[r].closures[1].stream = "unset"
               /\ NoFileResolvedFor(reqs[r], reqs[r].closures[1].statPath)
               /\ NoFallback
                    => /\ Plain404(reqs[r])
                       /\ \A i \in Calls(reqs[r]) : reqs[r].closures[i].stream = "unset"
                       /\ NoFileResolved(reqs[r])

C9_Witness ==
    \E r \in RequestIds :
        /\ DisabledExtension(reqs[r])
        /\ mimeMap["*"] # ""
        /\ reqs[r].finished /\ reqs[r].sentStatus = 404
        /\ reqs[r].body = << Text("Not Found") >>

\* C10: started with --default-file-name "", the server has an empty default
\* file name, and a GET for a directory (listing off) is not answered with
\* the default file of the directory.
C10_DefaultFileSwitchedOff ==
    launch = "cli" /\ started /\ HasOption(argv, "--default-file-name", "")
        => /\ config.defaultFileName = ""
           /\ \A r \in RequestIds :
                 (/\ Resolved(reqs[r])
                  /\ FsKind(reqs[r].closures[1].statPath) = "dir"
                  /\ ~config.directoryListing)
                     => /\ reqs[r].closures[1].stream = "unset"
                        /\ NoFileResolved(reqs[r])

\* q is a resolved GET for a directory that is on disk
DirRequest(q) == Resolved(q) /\ FsKind(q.closures[1].statPath) = "dir"

\* the default document of the directory q asks for
DefaultDocument(q) == pathJoin(q.closures[1].statPath, config.defaultFileName)

\* the value the MIME map gives for the file at path p
MappedType(p) ==
    IF MimeKey(p) \in DOMAIN mimeMap THEN mimeMap[MimeKey(p)] ELSE mimeMap["*"]

\* q is finished and no handler has set an error status
FinishedOk(q) == q.finished /\ q.statusCode = 200

\* q got the bytes of the file at path p with the content type of its extension
ServedAs(q, p) ==
    /\ q.sentStatus = 200
    /\ q.body = CompleteBody(p)
    /\ q.contentType = MappedType(p)

C11_WitnessNoName ==
    \E r \in RequestIds :
        /\ DirRequest(reqs[r]) /\ ~config.directoryListing
        /\ config.defaultFileName = ""
        /\ reqs[r].finished /\ reqs[r].sentStatus = 404


\* q is a resolved GET for a directory whose fs.readdir has called back
\* without an error, the listing being sent
ListingSent(q) ==
    /\ DirRequest(q)
    /\ config.directoryListing
    /\ q.readdir = "done"
    /\ q.statusCode = 200
    /\ q.headersSent

\* the body of q is one generated listing
IsListingBody(q) == Len(q.body) = 1 /\ q.body[1].t = "listing"

\* C12: with directory listing on, a directory is answered with status 200,
\* the header Content-Type: text/html and the generated listing as body.
C12_ListingIsHtml ==
    \A r \in RequestIds :
        ListingSent(reqs[r])
            => /\ reqs[r].sentStatus = 200
               /\ IsListingBody(reqs[r])
               /\ reqs[r].contentType = "text/html"

\* status and body of a listing, without the header
C12_ListingStatusAndBody ==
    \A r \in RequestIds :
        ListingSent(reqs[r]) => reqs[r].sentStatus = 200 /\ IsListingBody(reqs[r])


\* the immediate children of the directory at path d
ImmediateChildren(d) ==
    { p \in DOMAIN fs \ {"."} : Dirname(p) = StripTrailingSlashes(pathNormalize(d)) }

\* escape of every path of the model
HrefTable == [p \in { FsOrder[k] : k \in 1..Len(FsOrder) } |-> escape(p)]

\* the href of the anchor that leads to the entry with path p
HrefOf(p) == HrefTable[p]

\* the anchors of the section of listing l under heading h
AnchorsUnder(l, h) ==
    { a \in UNION { { l.sections[k].anchors[n] : n \in 1..Len(l.sections[k].anchors) } :
                        k \in 1..Len(l.sections) } :
        \E k \in 1..Len(l.sections) :
            /\ l.sections[k].heading = h
            /\ \E n \in 1..Len(l.sections[k].anchors) : l.sections[k].anchors[n] = a }

\* the number of anchors of listing l that lead to path p
AnchorCount(l, p) ==
    Cardinality({ kn \in (1..Len(l.sections)) \X (1..Len(FsOrder)) :
                    /\ kn[2] <= Len(l.sections[kn[1]].anchors)
                    /\ l.sections[kn[1]].anchors[kn[2]].href = HrefOf(p) })

\* the headings of listing l, in the order they are rendered
Headings(l) == [k \in 1..Len(l.sections) |-> l.sections[k].heading]

\* the children of d the listing l of d has to show, `shown`, have one
\* anchor each, the directories under 'Folders', the files under 'Files',
\* 'Folders' first, and l has no other anchor
ListsChildren(l, shown) ==
    /\ Headings(l) \in { << "Files" >>, << "Folders", "Files" >> }
    /\ \A p \in shown :
          /\ AnchorCount(l, p) = 1
          /\ fs[p] = "dir" => \E a \in AnchorsUnder(l, "Folders") : a.href = HrefOf(p)
          /\ fs[p] # "dir" => \E a \in AnchorsUnder(l, "Files") : a.href = HrefOf(p)
    /\ \A a \in AnchorsUnder(l, "Folders") \cup AnchorsUnder(l, "Files") : a.href \in { HrefOf(p) : p \in shown }

\* the immediate children of d that fs.statSync finds, a file or a directory
StatableChildren(d) == { p \in ImmediateChildren(d) : fs[p] \in {"file", "dir"} }

\* C13 as stated: the listing has an anchor for every immediate child of the
\* directory, the directories in a 'Folders' section before the files in a
\* 'Files' section, no child in both sections or in neither.
C13_Original ==
    \A r \in RequestIds :
        ListingSent(reqs[r]) /\ IsListingBody(reqs[r])
            => ListsChildren(reqs[r].body[1], ImmediateChildren(reqs[r].listDir))

\* C13 amended: the listing has an anchor for every immediate child of the
\* directory that fs.statSync finds to be a file or a directory, the
\* directories in a 'Folders' section before the files in a 'Files' section,
\* none of them in both sections or in neither; a child fs.statSync fails on
\* has no anchor.
C13_ListingPartition ==
    \A r \in RequestIds :
        ListingSent(reqs[r]) /\ IsListingBody(reqs[r])
            => ListsChildren(reqs[r].body[1], StatableChildren(reqs[r].listDir))

\* the listing of a directory that holds directories, files and a dangling link
C13_Witness ==
    \E r \in RequestIds :
        /\ ListingSent(reqs[r]) /\ IsListingBody(reqs[r])
        /\ reqs[r].finished
        /\ Headings(reqs[r].body[1]) = << "Folders", "Files" >>
        /\ \E p, f, g \in ImmediateChildren(reqs[r].listDir) :
              fs[p] = "dir" /\ fs[f] = "file" /\ fs[g] = "dangling"


\* call i of serveUrl for q was made by respondNotFound, for the not-found
\* file, and its fs.stat has called back; no file was removed meanwhile
FallbackCall(q, i) ==
    /\ q.closures[i].viaNotFound
    /\ q.closures[i].stat = "done"
    /\ fs = InitialFs

\* call i has resolved the not-found file and serves it: a stream is created
\* on it and a response that finishes without an error status is that file
\* with status 200
FallbackServed(q, i) ==
    /\ FsKind(q.closures[i].statPath) = "file"
    /\ q.closures[i].stream # "unset"
    /\ FinishedOk(q) => q.sentStatus = 200 /\ q.body = CompleteBody(q.closures[i].desiredPath)

\* the literal 404 is sent only when no not-found file was served
Literal404OnlyWithoutFallback(q) ==
    q.sentStatus = 404
        => /\ q.body \in { << >>, << Text("Not Found") >> }
           /\ \A i \in Calls(q) : q.closures[i].viaNotFound => q.closures[i].pos = 0

\* C14: when the target is not found and the configured not-found file
\* exists on disk, that file is served through the serve pipeline with the
\* status of its own resolution, 200; the literal 404 'Not Found' is used
\* only when no not-found file is served.
C14_FallbackServed ==
    \A r \in RequestIds :
        /\ Literal404OnlyWithoutFallback(reqs[r])
        /\ \A i \in Calls(reqs[r]) :
              FallbackCall(reqs[r], i) => FallbackServed(reqs[r], i)

\* the same, for a not-found file that is also there under the served root
C14_FallbackServedWhenUnderRoot ==
    \A r \in RequestIds :
        /\ Literal404OnlyWithoutFallback(reqs[r])
        /\ \A i \in Calls(reqs[r]) :
              FallbackCall(reqs[r], i) /\ FsKind(reqs[r].closures[i].statPath) = "file"
                  => FallbackServed(reqs[r], i)


\* a not-found file is configured and fs.existsSync does not find it
FallbackMissing ==
    config.notFoundFile # "" /\ FsKindIn(InitialFs, config.notFoundFile) = "missing"

\* q has one of the not-found outcomes: an unsafe URL, a target fs.stat does
\* not find, a directory without document and listing, an extension without
\* content type, or a call of respondNotFound for any other reason (a file
\* gone when the stream opens it)
NotFoundOutcome(q) ==
    /\ q.method = "GET"
    /\ \/ IndexOf(q.url, "..") > 0
       \/ Resolved(q) /\ FsKindIn(InitialFs, q.closures[1].statPath) \notin {"file", "dir"}
       \/ DirRequest(q) /\ ~config.directoryListing /\ config.defaultFileName = ""
       \/ ResolvedFile(q) /\ MappedType(q.closures[1].statPath) = ""
       \/ q.existsCalls > 0

\* C15: when the configured not-found file does not exist, every not-found
\* outcome is the plain response, status 404 and body 'Not Found', and the
\* serve pipeline is not re-entered.
C15_MissingFallbackIsPlain404 ==
    FallbackMissing
        => \A r \in RequestIds :
              /\ reqs[r].reentries = 0
              /\ \A i \in Calls(reqs[r]) : ~reqs[r].closures[i].viaNotFound
              /\ NotFoundOutcome(reqs[r]) => Plain404(reqs[r]) /\ reqs[r].existsCalls = 1

\* a missing target with a missing not-found file, answered 404
C15_Witness ==
    \E r \in RequestIds :
        /\ FallbackMissing
        /\ reqs[r].url = "/missing.txt"
        /\ reqs[r].existsCalls = 1
        /\ reqs[r].finished /\ reqs[r].sentStatus = 404
        /\ reqs[r].body = << Text("Not Found") >>


\* C16: no exception escapes a callback of a request, whatever its method
\* and URL, and the process stays up.
C16_NoExceptionEscapes ==
    /\ ~crashed
    /\ \A r \in RequestIds : ~reqs[r].threw


\* every byte q has received is a byte of the file at path p
OnlyBytesOf(q, p) ==
    \A k \in 1..Len(q.body) : q.body[k].t = "chunk" => q.body[k] = Chunk(p, k)

\* q, a GET for a file on disk, has received bytes of its own file only, and
\* once finished without an error status has received it whole with the
\* content type of its extension
GetsOwnFile(q) ==
    ResolvedFile(q)
        => /\ OnlyBytesOf(q, getDesiredPath(q.url))
           /\ FinishedOk(q) => ServedAs(q, getDesiredPath(q.url))

\* a step that closes or otherwise changes a read stream of request r
\* leaves every other request as it is
OwnStreamsOnlyStep ==
    \A r, o \in RequestIds :
        r # o /\ reqs'[r].closures # reqs[r].closures => reqs'[o] = reqs[o]

\* C17: with requests in flight at the same time, in every interleaving of
\* their callbacks, each request for a file receives the content and the
\* content type of its own file, and a step on the read stream of one
\* request (its close included) changes no other request.
C17_NoInterference == [](\A r \in RequestIds : GetsOwnFile(reqs[r])) /\ [][OwnStreamsOnlyStep]_vars

\* two requests for distinct files whose streams were open together, one
\* aborted by its client in the middle of the file, the other served whole
C17_Witness ==
    \E r, o \in RequestIds :
        /\ r # o /\ reqs[r].url # reqs[o].url
        /\ ResolvedFile(reqs[r]) /\ ResolvedFile(reqs[o])
        /\ reqs[r].connClosed /\ reqs[r].closures[1].stream = "closed"
        /\ reqs[r].closures[1].pos = 1 /\ Len(reqs[r].body) = 1
        /\ FinishedOk(reqs[o]) /\ ServedAs(reqs[o], getDesiredPath(reqs[o].url))


\* the identifier request-arrived announced request r with
RequestIdOf(r) == reqs[r].events[1].requestId

\* the r-th accepted request has the identifier r, in all its events
IdsCountFromOne ==
    /\ totalRequests = Len(reqs)
    /\ \A r \in RequestIds :
          /\ reqs[r].events[1].name = "request-arrived"
          /\ RequestIdOf(r) = r
          /\ \A k \in 1..Len(reqs[r].events) : reqs[r].events[k].requestId = r
    /\ \A r, o \in RequestIds : r # o => RequestIdOf(r) # RequestIdOf(o)

\* the counter moves by one, with every accepted request and with nothing else
CounterStep ==
    /\ totalRequests' \in {totalRequests, totalRequests + 1}
    /\ totalRequests' = totalRequests + 1 <=> Len(reqs') = Len(reqs) + 1
    /\ \A r \in RequestIds : reqs'[r].events[1] = reqs[r].events[1]

\* C18: request identifiers start at 1 and increase by exactly 1 with every
\* accepted request, those rejected by the method or the safety gate
\* included; no two requests get the same identifier, whatever is in flight.
C18_RequestIds == []IdsCountFromOne /\ [][CounterStep]_vars

\* a request rejected by a gate gets the identifier 2 while request 1 is in
\* flight
C18_Witness ==
    /\ Len(reqs) = 2
    /\ reqs[1].endCount = 0 /\ reqs[1].closures # << >>
    /\ reqs[2].method = "POST" \/ IndexOf(reqs[2].url, "..") > 0
    /\ RequestIdOf(1) = 1 /\ RequestIdOf(2) = 2


\* q was not aborted by its client and its response did not fail
NotAborted(q) == ~q.connClosed /\ ~q.reqError /\ ~q.resError

\* C19: a GET of a file that is on disk and has a content type, finished
\* without abort and without read error, has status 200 and a body that is
\* the content of the file, nothing before and nothing after.
C19_RoundTrip ==
    \A r \in RequestIds :
        (/\ ResolvedFile(reqs[r])
         /\ MappedType(reqs[r].closures[1].statPath) # ""
         /\ FinishedOk(reqs[r])
         /\ NotAborted(reqs[r]))
            => /\ reqs[r].sentStatus = 200
               /\ reqs[r].body = CompleteBody(getDesiredPath(reqs[r].url))
               /\ reqs[r].endCount = 1

C19_Witness ==
    \E r \in RequestIds :
        /\ reqs[r].url = "/a.txt"
        /\ ResolvedFile(reqs[r]) /\ FinishedOk(reqs[r]) /\ NotAborted(reqs[r])
        /\ reqs[r].body = << Chunk("r/a.txt", 1), Chunk("r/a.txt", 2) >>


\* q is a GET whose response is finished and was not hit by an I/O error
\* (a failed read or a failed readdir, the only sources of a 500)
Answered(q) == q.method = "GET" /\ q.finished /\ q.statusCode # 500

C21_ListingBeforeDefaultDocument ==
    \A r \in RequestIds :
        DirRequest(reqs[r]) /\ config.directoryListing
            => /\ reqs[r].readdir # "none"
               /\ reqs[r].listDir = reqs[r].closures[1].statPath
               /\ reqs[r].closures[1].stream = "unset"
               /\ NoFileResolved(reqs[r])
               /\ Len(reqs[r].closures) = 1
               /\ reqs[r].headersSent /\ reqs[r].statusCode = 200 => IsListingBody(reqs[r])

\* the listing of a directory that holds the default document
C21_Witness ==
    \E r \in RequestIds :
        /\ DirRequest(reqs[r]) /\ config.directoryListing
        /\ config.defaultFileName = "index.html"
        /\ FsKind(DefaultDocument(reqs[r])) = "file"
        /\ reqs[r].finished /\ IsListingBody(reqs[r])


\* the option `name` is on the command line
Given(name) == \E k \in 1..Len(argv) : argv[k] = name

CertWithoutKey == "When --ssl-cert-file argument is provided, --ssl-key-file is required"

KeyWithoutCert == "When --ssl-key-file argument is provided, --ssl-cert-file is required"

\* start has returned the errors `errors` and has created no server
RefusedWith(errors) ==
    /\ startErrors = errors
    /\ ~started
    /\ config = EmptyConfig /\ mimeMap = NoMimeMap
    /\ reqs = << >> /\ totalRequests = 0

\* the errors start has returned
Reported(e) == \E k \in 1..Len(startErrors) : startErrors[k] = e

\* C22: with exactly one of --ssl-cert-file and --ssl-key-file on the command
\* line, start reports the error that names the missing one and no server
\* is created or started; with both or neither, no such error is reported.
C22_SslArgumentPair ==
    launch = "cli"
        => /\ Given("--ssl-cert-file") /\ ~Given("--ssl-key-file")
                => RefusedWith(<< CertWithoutKey >>)
           /\ Given("--ssl-key-file") /\ ~Given("--ssl-cert-file")
                => RefusedWith(<< KeyWithoutCert >>)
           /\ (Given("--ssl-cert-file") <=> Given("--ssl-key-file"))
                => ~Reported(CertWithoutKey) /\ ~Reported(KeyWithoutCert)

\* the key without the certificate
C22_Witness ==
    /\ launch = "cli"
    /\ Given("--ssl-key-file") /\ ~Given("--ssl-cert-file")
    /\ RefusedWith(<< KeyWithoutCert >>)

\* certificate and key, and a server that serves
C22_WitnessBoth ==
    /\ launch = "cli"
    /\ Given("--ssl-key-file") /\ Given("--ssl-cert-file")
    /\ started /\ totalRequests = 1


\* C23: a GET whose URL is unsafe is answered before the serve pipeline: the
\* not-found file is not looked up and not served, serveUrl is not called
\* (no stat), no file-resolved event is emitted.
C23_UnsafeUrlShortCircuit ==
    \A r \in RequestIds :
        reqs[r].method = "GET" /\ IndexOf(reqs[r].url, "..") > 0
            => /\ reqs[r].existsCalls = 0
               /\ reqs[r].closures = << >>
               /\ NoFileResolved(reqs[r])

\* the short circuit as far as the code has it: with no not-found file
\* configured, an unsafe URL gets the plain 404 at once
C23_ShortCircuitWithoutFallback ==
    \A r \in RequestIds :
        reqs[r].method = "GET" /\ IndexOf(reqs[r].url, "..") > 0 /\ config.notFoundFile = ""
            => /\ reqs[r].existsCalls = 0
               /\ reqs[r].closures = << >>
               /\ Plain404(reqs[r])


\* the connection of the request was closed, or the request or the response
\* emitted 'error'
Cancelled(q) == q.connClosed \/ q.reqError \/ q.resError

\* call i of serveUrl creates its read stream in this step
StreamCreated(r, i) ==
    /\ reqs'[r].closures[i].stream = "opening"
    /\ i \in Calls(reqs[r]) => reqs[r].closures[i].stream # "opening"

\* the close or error closes the read streams the request has at that moment
ClosesOpenStreamsStep ==
    \A r \in RequestIds :
        ~Cancelled(reqs[r]) /\ Cancelled(reqs'[r])
            => \A i \in Calls(reqs[r]) :
                  reqs[r].closures[i].stream # "unset" => reqs'[r].closures[i].stream = "closed"

\* after the close or error no read stream is created for the request and
\* nothing more is written to its response
NothingAfterCancelStep ==
    \A r \in RequestIds :
        Cancelled(reqs[r])
            => /\ \A i \in Calls(reqs'[r]) : ~StreamCreated(r, i)
               /\ reqs'[r].body = reqs[r].body

\* C24: once the connection is closed or errored, the open read stream of the
\* request is closed at that moment, and afterwards no read stream is opened
\* for the request and no data is written to its response, also when the close
\* or error comes between the stat call and its callback.
C24_Cancellation == [][ClosesOpenStreamsStep /\ NothingAfterCancelStep]_vars

\* the part the code has: the streams that exist at the close or error are
\* closed by it
C24_ClosedAtThatMoment == [][ClosesOpenStreamsStep]_vars


\* request r emits none of 'close', 'error' and 'finish' in this step
SameFlags(r) ==
    /\ reqs'[r].connClosed = reqs[r].connClosed
    /\ reqs'[r].reqError = reqs[r].reqError
    /\ reqs'[r].resError = reqs[r].resError
    /\ reqs'[r].finished = reqs[r].finished

\* the read stream of call i fails to open its file in this step
OpenFails(r, i) ==
    /\ reqs[r].closures[i].stream = "opening"
    /\ FsKind(reqs[r].closures[i].desiredPath) \notin {"file", "dir"}
    /\ reqs'[r].closures[i].stream # "opening"
    /\ SameFlags(r)

\* a read of the open stream of call i fails in this step
ReadFails(r, i) ==
    /\ reqs[r].closures[i].stream = "open" /\ ~reqs[r].closures[i].paused
    /\ reqs[r].closures[i].fdKind = "dir" \/ reqs[r].closures[i].pos < FileChunks
    /\ reqs'[r].closures[i].stream # "open"
    /\ SameFlags(r)

\* fs.stat of call i calls back with an error in this step
StatFails(r, i) ==
    /\ reqs[r].closures[i].stat = "pending"
    /\ FsKind(reqs[r].closures[i].desiredPath) \notin {"file", "dir"}
    /\ reqs'[r].closures[i].stat = "done"

\* the step takes the NotFound path: serveUrl is called for the not-found
\* file, or the response is ended with 404 'Not Found'
NotFoundPathStep(r) ==
    \/ /\ Len(reqs'[r].closures) = Len(reqs[r].closures) + 1
       /\ reqs'[r].closures[Len(reqs'[r].closures)].viaNotFound
       /\ reqs'[r].closures[Len(reqs'[r].closures)].url = config.notFoundFile
       /\ reqs'[r].endCount = reqs[r].endCount
       /\ reqs'[r].statusCode = reqs[r].statusCode
    \/ /\ Len(reqs'[r].closures) = Len(reqs[r].closures)
       /\ reqs'[r].statusCode = 404
       /\ reqs'[r].endCount = reqs[r].endCount + 1
       /\ reqs[r].endCount = 0 /\ ~reqs[r].connClosed
             => reqs'[r].body = Append(reqs[r].body, Text("Not Found"))

\* the step ends the response with 500 'Internal Server Error'
InternalServerErrorStep(r) ==
    /\ Len(reqs'[r].closures) = Len(reqs[r].closures)
    /\ reqs'[r].statusCode = 500
    /\ reqs'[r].endCount = reqs[r].endCount + 1
    /\ reqs[r].endCount = 0 /\ ~reqs[r].connClosed
          => reqs'[r].body = Append(reqs[r].body, Text("Internal Server Error"))

StreamClosedStep(r, i) ==
    /\ reqs'[r].closures[i].stream = "closed"
    /\ reqs'[r].closures[i].releases = 1

ReadErrorClassifiedStep ==
    \A r \in RequestIds : \A i \in Calls(reqs[r]) :
        /\ OpenFails(r, i) /\ FsKind(reqs[r].closures[i].desiredPath) = "missing"
              => StreamClosedStep(r, i) /\ NotFoundPathStep(r)
        /\ OpenFails(r, i) /\ FsKind(reqs[r].closures[i].desiredPath) # "missing"
              => StreamClosedStep(r, i) /\ InternalServerErrorStep(r)
        /\ ReadFails(r, i)
              => StreamClosedStep(r, i) /\ InternalServerErrorStep(r)
        /\ StatFails(r, i)
              => NotFoundPathStep(r) /\ reqs'[r].statusCode # 500

C25_WitnessEnoent ==
    \E r \in RequestIds : \E i \in Calls(reqs[r]) :
        /\ ~Cancelled(reqs[r])
        /\ reqs[r].closures[i].stream = "closed" /\ reqs[r].closures[i].closeCalls = 1
        /\ FsKind(reqs[r].closures[i].desiredPath) = "missing"
        /\ reqs[r].statusCode = 404

\* fs.stat failed with an error other than ENOENT and the answer is 404
C25_WitnessStat ==
    \E r \in RequestIds : \E i \in Calls(reqs[r]) :
        /\ reqs[r].closures[i].stat = "done"
        /\ FsKind(reqs[r].closures[i].desiredPath) = "enotdir"
        /\ reqs[r].closures[i].stream = "unset"
        /\ reqs[r].statusCode = 404


\* the raw URL holds two dots in a row somewhere
HasDotDot(u) == \E k \in 1..(Len(u) - 1) : SubSeq(u, k, k + 1) = ".."

\* requestCallback took the URL of q for safe: it called serveUrl with it
TakenForSafe(q) ==
    /\ Len(q.closures) >= 1
    /\ ~q.closures[1].viaNotFound
    /\ q.closures[1].url = q.url

\* C26: the URL of a GET is taken for unsafe exactly when the raw URL holds
\* '..' at any position; the empty URL is safe and is resolved to the root
\* directory itself.
C26_UrlSafety ==
    \A r \in RequestIds :
        reqs[r].method = "GET"
            => /\ TakenForSafe(reqs[r]) <=> ~HasDotDot(reqs[r].url)
               /\ reqs[r].url = ""
                     => /\ TakenForSafe(reqs[r])
                        /\ pathNormalize(reqs[r].closures[1].statPath) = pathNormalize(basePath)

\* two dots in the query string alone make the URL unsafe
C26_Witness ==
    \E r \in RequestIds :
        /\ reqs[r].method = "GET" /\ reqs[r].url = "/a.txt?v=1..2"
        /\ ~TakenForSafe(reqs[r])
        /\ reqs[r].statusCode = 404 /\ reqs[r].endCount = 1

\* the empty URL is stat'ed as the root directory
C26_WitnessEmpty ==
    \E r \in RequestIds :
        /\ reqs[r].method = "GET" /\ reqs[r].url = ""
        /\ reqs[r].closures[1].stat = "done"
        /\ reqs[r].closures[1].statPath = "r"
        /\ FsKind(reqs[r].closures[1].statPath) = "dir"


\* the positions of u that start its query string or its fragment
Cuts(u) == { k \in 1..Len(u) : SubSeq(u, k, k) \in {"?", "#"} }

\* the path component of u: what stands before the query string and the
\* fragment
PathComponent(u) ==
    IF Cuts(u) = {} THEN u
    ELSE SubSeq(u, 1, (CHOOSE k \in Cuts(u) : \A j \in Cuts(u) : k <= j) - 1)

\* C27: two safe GET URLs that differ only in the query string or the
\* fragment resolve to the same path and, the file system being the same
\* for both, get the same status, content type and body.
C27_QueryAndFragmentIgnored ==
    \A r, o \in RequestIds :
        (/\ reqs[r].method = "GET" /\ reqs[o].method = "GET"
         /\ ~HasDotDot(reqs[r].url) /\ ~HasDotDot(reqs[o].url)
         /\ PathComponent(reqs[r].url) = PathComponent(reqs[o].url))
            => /\ reqs[r].closures[1].statPath = reqs[o].closures[1].statPath
               /\ Answered(reqs[r]) /\ Answered(reqs[o]) /\ fs = InitialFs
                     => /\ reqs[r].sentStatus = reqs[o].sentStatus
                        /\ reqs[r].contentType = reqs[o].contentType
                        /\ reqs[r].body = reqs[o].body

\* the same file asked for with a query string and with a fragment, served
\* whole both times
C27_Witness ==
    \E r, o \in RequestIds :
        /\ reqs[r].url = "/a.txt?v=1" /\ reqs[o].url = "/a.txt#top"
        /\ Answered(reqs[r]) /\ Answered(reqs[o]) /\ fs = InitialFs
        /\ reqs[r].closures[1].statPath = "r/a.txt"
        /\ reqs[r].sentStatus = 200 /\ reqs[r].body = CompleteBody("r/a.txt")
        /\ reqs[o].body = CompleteBody("r/a.txt")


\* the extension of the file q asks for, as path.extname gives it
ExtensionOf(q) == pathExtname(q.closures[1].statPath)

\* that extension in lower case without its dot
LowerExt(q) == SubSeq(toLowerCase(ExtensionOf(q)), 2, Len(ExtensionOf(q)))

\* the stat callback of q has decided on the content type t: the file is
\* resolved with t, or with t empty refused without a stream and without a
\* file-resolved event
DecidedAs(q, t) ==
    IF t = ""
    THEN /\ q.closures[1].stream = "unset"
         /\ NoFileResolvedFor(q, q.closures[1].statPath)
    ELSE \E k \in 1..Len(q.events) :
            /\ q.events[k].name = "file-resolved"
            /\ q.events[k].path = q.closures[1].statPath
            /\ q.events[k].contentType = t

\* C28: the extension is looked up in lower case without its dot, so that
\* extensions that differ in case only get the same content type; a file
\* without extension is looked up under '.', never under '*'.
C28_MimeNormalisation ==
    \A r \in RequestIds :
        ResolvedFile(reqs[r])
            => IF ExtensionOf(reqs[r]) = ""
               THEN DecidedAs(reqs[r], mimeMap["."])
               ELSE IF LowerExt(reqs[r]) \in DOMAIN mimeMap
               THEN DecidedAs(reqs[r], mimeMap[LowerExt(reqs[r])])
               ELSE DecidedAs(reqs[r], mimeMap["*"])

\* '*' mapped to "" does not disable a file without extension
C28_Witness ==
    \E r \in RequestIds :
        /\ ResolvedFile(reqs[r]) /\ reqs[r].url = "/noext"
        /\ mimeMap["*"] = ""
        /\ reqs[r].finished /\ reqs[r].sentStatus = 200
        /\ reqs[r].contentType = "application/octet-stream"

\* '.' mapped to "" disables it, '*' being non-empty
C28_WitnessDot ==
    \E r \in RequestIds :
        /\ ResolvedFile(reqs[r]) /\ reqs[r].url = "/noext"
        /\ mimeMap["."] = "" /\ mimeMap["*"] # ""
        /\ reqs[r].finished /\ reqs[r].sentStatus = 404

\* an extension in upper case gets the content type of the lower case one
C28_WitnessCase ==
    \E r \in RequestIds :
        /\ ResolvedFile(reqs[r]) /\ reqs[r].url = "/b.TXT"
        /\ reqs[r].finished /\ reqs[r].contentType = mimeMap["txt"]


\* C29: the MIME map a server uses is the built-in table with every key of
\* the overrides replaced by the override value as it is, the empty string
\* included; the other keys keep their built-in value; without overrides it
\* is the built-in table, in which '.' and '*' are application/octet-stream.
C29_MergedMimeMap ==
    started
        => /\ DOMAIN mimeMap = DOMAIN BuiltinMimeMap \cup DOMAIN config.mimeMap
           /\ \A k \in DOMAIN config.mimeMap : mimeMap[k] = config.mimeMap[k]
           /\ \A k \in DOMAIN BuiltinMimeMap \ DOMAIN config.mimeMap : mimeMap[k] = BuiltinMimeMap[k]
           /\ DOMAIN config.mimeMap = {}
                 => /\ mimeMap = BuiltinMimeMap
                    /\ mimeMap["."] = "application/octet-stream"
                    /\ mimeMap["*"] = "application/octet-stream"

\* a server constructed with an override to the empty string
C29_Witness ==
    /\ started
    /\ "ttf" \in DOMAIN config.mimeMap /\ config.mimeMap["ttf"] = ""
    /\ mimeMap["ttf"] = "" /\ mimeMap["txt"] = "text/plain"
    /\ mimeMap["*"] = "application/octet-stream"

\* a server constructed without overrides
C29_WitnessBuiltin ==
    /\ started
    /\ DOMAIN config.mimeMap = {}
    /\ mimeMap["html"] = "text/html"


\* the configuration, the MIME map and the base path stay as constructed
ServerStateKeptStep ==
    /\ config' = config
    /\ mimeMap' = mimeMap
    /\ basePath' = basePath

\* a step of one request leaves the other requests and the files alone; the
\* counter moves with the arrival of a request and with nothing else
OnlyCounterSharedStep ==
    /\ reqs' # reqs => fs' = fs
    /\ \A r, o \in RequestIds : r # o /\ reqs'[r] # reqs[r] => reqs'[o] = reqs[o]
    /\ Len(reqs') = Len(reqs) => totalRequests' = totalRequests
    /\ Len(reqs') # Len(reqs)
          => /\ totalRequests' = totalRequests + 1
             /\ \A o \in RequestIds : reqs'[o] = reqs[o]

\* C30: no sequence of requests modifies the configuration or the MIME map
\* of the server after construction; the request counter is the only shared
\* state a request changes.
C30_ServerStateImmutable == [][ServerStateKeptStep /\ OnlyCounterSharedStep]_vars

\* two requests were served one after the other by a server that is as it
\* was constructed
C30_Witness ==
    /\ Len(reqs) = 2 /\ totalRequests = 2
    /\ reqs[1].finished /\ reqs[2].finished
    /\ reqs[1].sentStatus = 200 /\ reqs[2].sentStatus = 404
    /\ config \in PairConfigs /\ mimeMap = BuiltinMimeMap /\ basePath = "r"


\* fs.readdir has called back for q, a GET for a directory of a server with
\* directory listing
ListingAttempted(q) ==
    /\ DirRequest(q)
    /\ config.directoryListing
    /\ q.readdir = "done"

\* listing l of directory d shows the children of d whose stat succeeds, and
\* no child whose stat fails
SkipsFailedStats(l, d) ==
    \A p \in ImmediateChildren(d) :
        (\E k \in 1..Len(l.sections) : \E n \in 1..Len(l.sections[k].anchors) :
            l.sections[k].anchors[n].href = HrefOf(p))
        <=> FsKind(p) \in {"file", "dir"}

\* C31: a child whose stat fails is left out of the listing, which shows all
\* the other children; only a failed enumeration of the directory fails the
\* request, with 500 'Internal Server Error', never 404 and never the
\* not-found file.
C31_ListingFailures ==
    \A r \in RequestIds :
        ListingAttempted(reqs[r])
            => /\ reqs[r].statusCode \in {200, 500}
               /\ reqs[r].existsCalls = 0
               /\ Len(reqs[r].closures) = 1
               /\ reqs[r].endCount = 1
               /\ reqs[r].headersSent /\ reqs[r].statusCode = 500
                     => /\ reqs[r].sentStatus = 500
                        /\ reqs[r].body = << Text("Internal Server Error") >>
               /\ reqs[r].headersSent /\ reqs[r].statusCode = 200
                     => /\ reqs[r].sentStatus = 200
                        /\ IsListingBody(reqs[r])
                        /\ SkipsFailedStats(reqs[r].body[1], reqs[r].listDir)

\* the enumeration of the directory failed and the answer is 500
C31_Witness ==
    \E r \in RequestIds :
        /\ ListingAttempted(reqs[r])
        /\ config.notFoundFile = "nf/404.html"
        /\ reqs[r].finished /\ reqs[r].sentStatus = 500
        /\ reqs[r].body = << Text("Internal Server Error") >>

\* a listing without the child whose stat fails, with the others
C31_WitnessSkip ==
    \E r \in RequestIds :
        /\ ListingAttempted(reqs[r]) /\ reqs[r].finished /\ reqs[r].sentStatus = 200
        /\ IsListingBody(reqs[r])
        /\ "r/link" \in ImmediateChildren(reqs[r].listDir)
        /\ AnchorCount(reqs[r].body[1], "r/link") = 0
        /\ AnchorCount(reqs[r].body[1], "r/a.txt") = 1


\* the entity of the character c, c itself when it has none
EntityOf(c) ==
    IF c = "&" THEN "&amp;"
    ELSE IF c = "<" THEN "&lt;"
    ELSE IF c = ">" THEN "&gt;"
    ELSE IF c = "\"" THEN "&quot;"
    ELSE IF c = "'" THEN "&#39;"
    ELSE c

RECURSIVE Entities(_)
\* s with each of & < > " ' replaced by its entity, once
Entities(s) == IF s = "" THEN "" ELSE EntityOf(CharAt(s, 1)) \o Entities(SubSeq(s, 2, Len(s)))

\* the HTML-escaped form of every path of the model
EntitiesTable == [p \in { FsOrder[k] : k \in 1..Len(FsOrder) } |-> Entities(p)]

\* the text a listing has to show for the entry with path p
VisibleText(p) == IF fs[p] = "dir" THEN EntitiesTable[p] \o "/" ELSE EntitiesTable[p]

\* the anchor of listing l that leads to p shows the text t
ShowsText(l, p, t) ==
    \E k \in 1..Len(l.sections) : \E n \in 1..Len(l.sections[k].anchors) :
        /\ l.sections[k].anchors[n].href = HrefOf(p)
        /\ l.sections[k].anchors[n].text = t

\* C32: the visible text of a listing entry is the HTML-escaped path: each of
\* & < > " ' is replaced by exactly its entity, every other character is
\* unchanged, and un-escaping the text gives the path back.
C32_EntryTextEscaped ==
    \A r \in RequestIds :
        ListingSent(reqs[r]) /\ IsListingBody(reqs[r])
            => \A p \in StatableChildren(reqs[r].listDir) :
                  ShowsText(reqs[r].body[1], p, VisibleText(p))

\* the same for the paths that hold neither '<' nor '>'
C32_WithoutAngleBrackets ==
    \A r \in RequestIds :
        ListingSent(reqs[r]) /\ IsListingBody(reqs[r])
            => \A p \in StatableChildren(reqs[r].listDir) :
                  IndexOf(p, "<") = 0 /\ IndexOf(p, ">") = 0
                      => ShowsText(reqs[r].body[1], p, VisibleText(p))


\* the places of the events named `name` among the events of q
EventsNamed(q, name) == { k \in 1..Len(q.events) : q.events[k].name = name }

\* C33: for every accepted request exactly one request-arrived event with
\* the identifier of the request is emitted, before the method gate and the
\* safety gate: a request the gates reject is announced as well.
C33_ArrivalAnnounced ==
    \A r \in RequestIds :
        /\ EventsNamed(reqs[r], "request-arrived") = {1}
        /\ reqs[r].events[1].requestId = r

\* a rejected POST and a rejected unsafe GET, both announced
C33_Witness ==
    /\ Len(reqs) = 2
    /\ reqs[1].method = "POST" /\ reqs[1].statusCode = 405 /\ reqs[1].finished
    /\ reqs[2].method = "GET" /\ HasDotDot(reqs[2].url) /\ reqs[2].statusCode = 404
    /\ EventsNamed(reqs[1], "request-arrived") = {1}
    /\ EventsNamed(reqs[2], "request-arrived") = {1}
    /\ reqs[2].events[1].requestId = 2


\* C34: for every request whose response finishes, whatever its outcome
\* (file, listing, 404, 405, 500), a response-sent event with the identifier
\* of the request is emitted.
C34_ResponseSentOnFinish ==
    \A r \in RequestIds :
        reqs[r].finished
            => \E k \in EventsNamed(reqs[r], "reponse-sent") : reqs[r].events[k].requestId = r

\* the same for the requests that reached serveUrl, where the 'finish'
\* listener is attached
C34_ResponseSentWhenServed ==
    \A r \in RequestIds :
        reqs[r].finished /\ reqs[r].closures # << >>
            => \E k \in EventsNamed(reqs[r], "reponse-sent") : reqs[r].events[k].requestId = r


\* C35: per request at most one response-sent event is emitted and at most
\* one set of cleanup hooks is attached to the request and the response,
\* also when the request is served through the not-found file.
C35_OneSetOfHooks ==
    \A r \in RequestIds :
        /\ Cardinality(EventsNamed(reqs[r], "reponse-sent")) <= 1
        /\ Len(reqs[r].closures) <= 1

\* the same for the requests that do not take the NotFound path to the
\* not-found file
C35_OneSetWithoutFallback ==
    \A r \in RequestIds :
        reqs[r].reentries = 0
            => /\ Cardinality(EventsNamed(reqs[r], "reponse-sent")) <= 1
               /\ Len(reqs[r].closures) <= 1


\* no request is answered with two response-sent events
C35_OneResponseSent ==
    \A r \in RequestIds : Cardinality(EventsNamed(reqs[r], "reponse-sent")) <= 1


\* request-arrived comes before every file-resolved, and every file-resolved
\* before every response-sent
EventsInOrder(q) ==
    /\ \A a \in EventsNamed(q, "request-arrived"), f \in EventsNamed(q, "file-resolved") : a < f
    /\ \A f \in EventsNamed(q, "file-resolved"), s \in EventsNamed(q, "reponse-sent") : f < s
    /\ \A a \in EventsNamed(q, "request-arrived"), s \in EventsNamed(q, "reponse-sent") : a < s

\* the finished response of q is the file the event e announced, with the
\* content type e carries
ServedAsAnnounced(q, e) ==
    /\ q.sentStatus = 200
    /\ q.body = CompleteBody(e.path)
    /\ q.contentType = e.contentType

\* C36: per request, request-arrived precedes file-resolved, which precedes
\* response-sent; file-resolved is emitted only for a target that is then
\* served, with the content type of the response that is sent: none for a
\* target that ends in a 404 or in the not-found file served in its place.
C36_EventsConsistent ==
    \A r \in RequestIds :
        /\ EventsInOrder(reqs[r])
        /\ reqs[r].finished
              => \A k \in EventsNamed(reqs[r], "file-resolved") :
                    ServedAsAnnounced(reqs[r], reqs[r].events[k])

\* the order of the events alone
C36_EventOrder == \A r \in RequestIds : EventsInOrder(reqs[r])


\* file bytes were written to the response of q
HasFileBytes(q) == \E k \in 1..Len(q.body) : q.body[k].t = "chunk"

\* an error text was written to the response of q
HasErrorText(q) ==
    \E k \in 1..Len(q.body) :
        q.body[k] \in { Text("Not Found"), Text("Internal Server Error") }

\* C37: a response body is never a mixture of file bytes and an error text:
\* the bodies 'Internal Server Error' and 'Not Found' and the statuses 500
\* and 404 are produced only for a response without file bytes, also when
\* the read fails after a part of the file was piped.
C37_NoMixedBody ==
    \A r \in RequestIds :
        HasFileBytes(reqs[r])
            => /\ ~HasErrorText(reqs[r])
               /\ reqs[r].statusCode \notin {404, 500}

\* the status line that was sent with file bytes is never an error status
C37_SentStatusWithBytes ==
    \A r \in RequestIds :
        HasFileBytes(reqs[r]) => reqs[r].sentStatus \notin {404, 500}


\* the request target a browser asks for when the anchor with href h of a
\* document with base '/' is followed
LinkTarget(h) == IF StartsWith(h, "/") THEN h ELSE "/" \o h

\* the request target of every path of the model
LinkTable == [p \in { FsOrder[k] : k \in 1..Len(FsOrder) } |-> LinkTarget(escape(p))]

\* the entry with path p is in listing l
HasEntry(l, p) ==
    \E k \in 1..Len(l.sections) : \E n \in 1..Len(l.sections[k].anchors) :
        l.sections[k].anchors[n].href = HrefOf(p)

\* C38: for every entry of a listing, a GET for its href, resolved against
\* the base '/', passes the safety gate and resolves through getDesiredPath
\* to the path of the entry, whatever the root.
C38_LinksRoundTrip ==
    \A r \in RequestIds :
        ListingSent(reqs[r]) /\ IsListingBody(reqs[r])
            => \A p \in ImmediateChildren(reqs[r].listDir) :
                  HasEntry(reqs[r].body[1], p)
                      => /\ isUrlSafe(LinkTable[p])
                         /\ getDesiredPath(LinkTable[p]) = p

\* every link of a listing passes the safety gate
C38_LinksAreSafe ==
    \A r \in RequestIds :
        ListingSent(reqs[r]) /\ IsListingBody(reqs[r])
            => \A p \in ImmediateChildren(reqs[r].listDir) :
                  HasEntry(reqs[r].body[1], p) => isUrlSafe(LinkTable[p])


=============================================================================
